---- MODULE Spec2Model ----
(***************************************************************************)
(* Combat simulation and wave engine of the tower-defense game             *)
(* (src/newProject.cpp).                                                   *)
(*                                                                         *)
(* Units of measure.  The program computes with float seconds and float    *)
(* lane coordinates.  The model uses exact integers: time in milliseconds  *)
(* and lane coordinates in thousandths of a lane unit, so that             *)
(* speed (units/s) * deltaTime (ms) is a coordinate increment without      *)
(* rounding.  Every unit and both towers sit on y = LANE_Y, so the         *)
(* Euclidean distance of the program is |x1 - x2|.                         *)
(*                                                                         *)
(* A unit is identified by the address of its heap object (id).  A pointer *)
(* to a unit that was erased from the list is a dangling pointer; reading  *)
(* through it is undefined behaviour and is modelled as a choice between   *)
(* the stale contents of the freed object and a crash of the process.      *)
(***************************************************************************)
EXTENDS Integers, Sequences, FiniteSets, TLC

\* ---------------------------------------------------------------- bounds
MaxTicks  == 236     \* Playing frames explored per match
MaxSpawns == 2       \* honoured player spawn commands per match
KeyFrames == {0, 60, 120, 154} \* frames of a match on which the player presses keys
FreezeFrames == {150, 192} \* frames of a match on which the player presses F
DeltaTimes == {100}  \* frame times handed to Update, in ms
WalkDeltas == {50, 200}   \* frame times of the lone walker, in ms
LaneTicks == 2       \* frames explored from each mid-match lane situation
EndTicks == 3        \* frames explored from each end-of-match situation
WaveSteps == 12000   \* calls of the wave sequencer explored on its own
SplashTicks == 3     \* frames explored from each splash situation
FreezeSteps == 320   \* frames of the freeze cooldown explored on its own

\* ------------------------------------------------------ program constants
SCREEN_WIDTH      == 1200
TOWER_HP          == 3500
TOWER_DAMAGE      == 50
TOWER_ATTACK_RATE == 1000
TOWER_RANGE       == 300000
FREEZE_DURATION   == 5000
FREEZE_COOLDOWN   == 30000
MAX_ELIXIR        == 10
ELIXIR_RATE       == 2000
GAME_TIME_LIMIT   == 120000
InitialElixir     == 5
PlayerSpawnX      == 150000
EnemySpawnX       == 1050000
PlayerTowerX      == 50000
EnemyTowerX       == 1150000
LaneEndBand       == 60000
WaypointStride    == 50000
SnapThreshold     == 5000
PriorityBand      == 10000
SplashRadius      == 60000
WaveCooldown      == 10000
ProjectileSpeed   == 3       \* progress per second (Projectile::Update)
FreezeEffects     == 20      \* effects of one freeze
MinSpawnRate      == 2000

NULL == 0

UnitTypes == {"KNIGHT", "ARCHER", "GIANT", "WIZARD"}

Abs(n) == IF n < 0 THEN 0 - n ELSE n

\* Unit::getUnitStats / Game::GetUnitStats (same table twice in the source)
getUnitStats(type) ==
  CASE type = "KNIGHT" -> [cost |-> 3, hp |-> 300,  damage |-> 60, speed |-> 80,
                           attackRate |-> 1200, range |-> 40000]
    [] type = "ARCHER" -> [cost |-> 3, hp |-> 150,  damage |-> 40, speed |-> 60,
                           attackRate |-> 1500, range |-> 150000]
    [] type = "GIANT"  -> [cost |-> 5, hp |-> 1000, damage |-> 80, speed |-> 40,
                           attackRate |-> 2000, range |-> 50000]
    [] type = "WIZARD" -> [cost |-> 4, hp |-> 180,  damage |-> 70, speed |-> 50,
                           attackRate |-> 2500, range |-> 120000]

\* Unit::CalculateDistance / Tower::CalculateDistance on the lane y = LANE_Y
CalculateDistance(a, b) == Abs(a - b)

\* Unit::generatePath: waypoints every 50 units from the spawn position
RECURSIVE PlayerPath(_)
PlayerPath(x) ==
  IF x < (SCREEN_WIDTH - 50) * 1000 THEN <<x>> \o PlayerPath(x + WaypointStride)
  ELSE <<>>

RECURSIVE EnemyPath(_)
EnemyPath(x) ==
  IF x > 50000 THEN <<x>> \o EnemyPath(x - WaypointStride) ELSE <<>>

generatePath(isPlayer, x) == IF isPlayer THEN PlayerPath(x) ELSE EnemyPath(x)

\* a constructor that leaves the unit on the enemy side
NewUnit_WrongSide(id, type, isPlayer) ==
  LET stats == getUnitStats(type)
      x     == IF isPlayer THEN PlayerSpawnX ELSE EnemySpawnX
      p     == generatePath(isPlayer, x)
  IN [id |-> id, type |-> type, isPlayer |-> FALSE, isAlive |-> TRUE,
      target |-> NULL, isFrozen |-> FALSE, freezeTimer |-> 0,
      maxHP |-> stats.hp, currentHP |-> stats.hp, damage |-> stats.damage,
      speed |-> stats.speed, attackRate |-> stats.attackRate,
      attackRange |-> stats.range, position |-> x,
      path |-> p, currentTargetPos |-> p[1], attackTimer |-> 0]

\* Unit::Unit
NewUnit(id, type, isPlayer) ==
  LET stats == getUnitStats(type)
      x     == IF isPlayer THEN PlayerSpawnX ELSE EnemySpawnX
      p     == generatePath(isPlayer, x)
  IN [id |-> id, type |-> type, isPlayer |-> isPlayer, isAlive |-> TRUE,
      target |-> NULL, isFrozen |-> FALSE, freezeTimer |-> 0,
      maxHP |-> stats.hp, currentHP |-> stats.hp, damage |-> stats.damage,
      speed |-> stats.speed, attackRate |-> stats.attackRate,
      attackRange |-> stats.range, position |-> x,
      path |-> p, currentTargetPos |-> p[1], attackTimer |-> 0]

\* Tower::Tower
NewTower(isPlayer) ==
  [isPlayer |-> isPlayer, maxHP |-> TOWER_HP, currentHP |-> TOWER_HP,
   damage |-> TOWER_DAMAGE, attackRate |-> TOWER_ATTACK_RATE,
   attackTimer |-> 0, isAlive |-> TRUE,
   position |-> IF isPlayer THEN PlayerTowerX ELSE EnemyTowerX,
   targetQueue |-> {}, top |-> NULL]

\* Projectile::Projectile: a new effect, progress 0 (in thousandths)
CreateAttackEffect == <<0>>

\* Game::CreateFreezeEffect: twenty new effects
CreateFreezeEffect == [i \in 1..FreezeEffects |-> 0]

\* Game::Update, lines 719-727: Projectile::Update on every effect, then the
\* finished ones are erased
UpdateProjectiles(ps, dt) ==
  LET Active(progress) == progress < 1000
  IN SelectSeq([i \in DOMAIN ps |-> ps[i] + dt * ProjectileSpeed], Active)

\* Game::InitializeWaves: the composition of the eight waves
WaveUnits ==
  << << <<"KNIGHT", 2>>, <<"WIZARD", 1>> >>,
     << <<"GIANT", 1>>, <<"KNIGHT", 1>>, <<"ARCHER", 1>> >>,
     << <<"ARCHER", 2>>, <<"WIZARD", 1>> >>,
     << <<"GIANT", 1>>, <<"WIZARD", 2>> >>,
     << <<"KNIGHT", 2>>, <<"ARCHER", 1>>, <<"GIANT", 1>> >>,
     << <<"WIZARD", 1>>, <<"ARCHER", 2>>, <<"KNIGHT", 1>> >>,
     << <<"GIANT", 1>>, <<"WIZARD", 1>>, <<"ARCHER", 2>> >>,
     << <<"KNIGHT", 2>>, <<"GIANT", 1>>, <<"WIZARD", 1>> >> >>

InitialSpawnRates == <<4000, 3500, 3500, 3500, 3000, 3000, 2500, 2500>>

NumWaves == Len(WaveUnits)

\* the number of units in the first e composition entries of wave w
RECURSIVE UnitsInEntries(_, _)
UnitsInEntries(w, e) ==
  IF e = 0 THEN 0 ELSE UnitsInEntries(w, e - 1) + WaveUnits[w][e][2]

\* the unit types wave w spawns, in order: each entry's type, count times
WaveSequence(w) ==
  [k \in 1..UnitsInEntries(w, Len(WaveUnits[w])) |->
     WaveUnits[w][CHOOSE e \in DOMAIN WaveUnits[w] :
                    /\ UnitsInEntries(w, e - 1) < k
                    /\ k <= UnitsInEntries(w, e)][1]]

\* the unit types of the waves 1..w, in order
RECURSIVE WavesUpTo(_)
WavesUpTo(w) == IF w = 0 THEN <<>> ELSE WavesUpTo(w - 1) \o WaveSequence(w)

VARIABLES
  currentState,    \* GameState
  playerTower, enemyTower,
  units,           \* std::list<std::unique_ptr<Unit>>, in list order
  playerElixir, enemyElixir, elixirTimer,
  freezeAvailable, freezeCooldown,
  gameTimer, gameOver, winner,
  spawnRate,       \* GameWave::spawnRate of the eight waves
  currentWave, waveSpawnTimer, currentUnitTypeIndex,
  unitsSpawnedForCurrentType, isBetweenWaves, betweenWavesTimer,
  pc,              \* position inside Game::Update: idle / units / attacks / crashed
  it,              \* the iterator of the unit loop (index into units)
  deltaTime,       \* the argument of the Update in progress
  nextId,          \* next heap address handed out for a Unit
  ticks, spawns,   \* frames and honoured spawns of the current match
  obs,             \* what the last step did (observation only)
  deadBefore,      \* ids that were dead in the list when the unit loop began
  visited,         \* ids whose Unit::Update the unit loop has called so far
  waveLog,         \* types of the enemy units the sequencer has spawned this match
  projectiles      \* std::vector<Projectile>: the progress of each effect

simVars == <<currentState, playerTower, enemyTower, units, playerElixir,
             enemyElixir, elixirTimer, freezeAvailable, freezeCooldown,
             gameTimer, gameOver, winner, spawnRate, currentWave,
             waveSpawnTimer, currentUnitTypeIndex, unitsSpawnedForCurrentType,
             isBetweenWaves, betweenWavesTimer, projectiles>>

vars == <<currentState, playerTower, enemyTower, units, playerElixir,
          enemyElixir, elixirTimer, freezeAvailable, freezeCooldown,
          gameTimer, gameOver, winner, spawnRate, currentWave,
          waveSpawnTimer, currentUnitTypeIndex, unitsSpawnedForCurrentType,
          isBetweenWaves, betweenWavesTimer, pc, it, deltaTime, nextId,
          ticks, spawns, obs, deadBefore, visited, waveLog,
          projectiles>>


\* ------------------------------------------------------------- observation
NoObs == [op |-> "none", ok |-> TRUE, unit |-> NULL, type |-> "none",
          dangling |-> FALSE, attacked |-> NULL, killed |-> FALSE,
          moved |-> FALSE, shots |-> {}, hp |-> 0, frozen |-> FALSE,
          prev |-> NULL]

\* ------------------------------------------------------------ the heap
Member(us, id) == \E j \in DOMAIN us : us[j].id = id
IndexOf(us, id) == CHOOSE j \in DOMAIN us : us[j].id = id
Sgn(n) == IF n < 0 THEN 0 - 1 ELSE IF n > 0 THEN 1 ELSE 0
RemoveAt(s, i) == [j \in 1..(Len(s) - 1) |-> IF j < i THEN s[j] ELSE s[j + 1]]

\* ------------------------------------------------------ targeting policy
\* What a comparison sort (std::sort) or a heap (std::priority_queue) may put
\* first.  R is the comparator as a relation on S: <<a, b>> \in R is "a is
\* ordered before b".  When R is a strict weak ordering on S the first element
\* is one of the minimal ones; when it is not, the library call has undefined
\* behaviour and any element may come first.
StrictWeak(S, R) ==
  /\ \A a \in S : <<a, a>> \notin R
  /\ \A a, b, c \in S :
        (<<a, b>> \in R /\ <<b, c>> \in R) => <<a, c>> \in R
  /\ \A a, b, c \in S :
        (/\ <<a, b>> \notin R /\ <<b, a>> \notin R
         /\ <<b, c>> \notin R /\ <<c, b>> \notin R)
           => (<<a, c>> \notin R /\ <<c, a>> \notin R)

Front(S, R) ==
  IF StrictWeak(S, R)
  THEN {a \in S : \A b \in S : <<b, a>> \notin R}
  ELSE S

\* the lambda of Unit::FindTargetWithPriority, on (unit, distance) pairs
UnitTargetBefore(us, a, b) ==
  IF Abs(a.distance - b.distance) < PriorityBand
  THEN us[a.idx].currentHP < us[b.idx].currentHP
  ELSE a.distance < b.distance

\* TowerTargetPriority::operator(): true when a has LOWER priority than b
TowerTargetPriority(us, a, b) ==
  IF Abs(a.distance - b.distance) < PriorityBand
  THEN us[a.idx].currentHP > us[b.idx].currentHP
  ELSE a.distance > b.distance

\* the candidates collected by Unit::FindTargetWithPriority
PotentialTargets(us, i) ==
  {[idx |-> j, distance |-> CalculateDistance(us[i].position, us[j].position)] :
     j \in {k \in DOMAIN us :
              /\ us[k].isAlive
              /\ us[k].isPlayer # us[i].isPlayer
              /\ CalculateDistance(us[i].position, us[k].position)
                   <= (us[i].attackRange * 3) \div 2}}

\* Unit::FindTargetWithPriority: the ids the unit may end up targeting
FindTargetWithPriority(us, i) ==
  LET cands == PotentialTargets(us, i)
  IN IF cands # {}
     THEN {us[c.idx].id :
             c \in Front(cands, {p \in cands \X cands :
                                    UnitTargetBefore(us, p[1], p[2])})}
     ELSE {NULL}

\* ------------------------------------------------------------------ Unit
\* Unit::FollowPath
FollowPath(u, dt) ==
  IF u.path = <<>> THEN u
  ELSE LET direction == u.currentTargetPos - u.position
           distance  == Abs(direction)
       IN IF distance < SnapThreshold
          THEN LET p == Tail(u.path)
               IN [u EXCEPT !.path = p,
                            !.currentTargetPos = IF p # <<>> THEN p[1] ELSE @]
          ELSE [u EXCEPT !.position = @ + Sgn(direction) * u.speed * dt]

\* an Attack whose lethality test misses a health of exactly 0
Attack_StrictlyNegative(us, i, t) ==
  IF ~us[t].isAlive THEN us
  ELSE
  LET u   == us[i]
      hit == [us EXCEPT ![t].currentHP = @ - u.damage]
      spl == IF u.type = "WIZARD"
             THEN [j \in DOMAIN hit |->
                     IF /\ hit[j].isAlive
                        /\ j # t
                        /\ hit[j].isPlayer # u.isPlayer
                        /\ CalculateDistance(hit[j].position, hit[t].position)
                             < SplashRadius
                     THEN [hit[j] EXCEPT !.currentHP = @ - (u.damage \div 2)]
                     ELSE hit[j]]
             ELSE hit
  IN IF spl[t].currentHP < 0
     THEN [spl EXCEPT ![t].isAlive = FALSE, ![i].target = NULL]
     ELSE spl

\* an Attack whose splash does not leave out the primary target
Attack_SplashOnTarget(us, i, t) ==
  IF ~us[t].isAlive THEN us
  ELSE
  LET u   == us[i]
      hit == [us EXCEPT ![t].currentHP = @ - u.damage]
      spl == IF u.type = "WIZARD"
             THEN [j \in DOMAIN hit |->
                     IF /\ hit[j].isAlive
                        /\ hit[j].isPlayer # u.isPlayer
                        /\ CalculateDistance(hit[j].position, hit[t].position)
                             < SplashRadius
                     THEN [hit[j] EXCEPT !.currentHP = @ - (u.damage \div 2)]
                     ELSE hit[j]]
             ELSE hit
  IN IF spl[t].currentHP <= 0
     THEN [spl EXCEPT ![t].isAlive = FALSE, ![i].target = NULL]
     ELSE spl

\* Unit::Attack(targetUnit, allUnits), t the list index of targetUnit
Attack(us, i, t) ==
  IF ~us[t].isAlive THEN us
  ELSE
  LET u   == us[i]
      hit == [us EXCEPT ![t].currentHP = @ - u.damage]
      spl == IF u.type = "WIZARD"
             THEN [j \in DOMAIN hit |->
                     IF /\ hit[j].isAlive
                        /\ j # t
                        /\ hit[j].isPlayer # u.isPlayer
                        /\ CalculateDistance(hit[j].position, hit[t].position)
                             < SplashRadius
                     THEN [hit[j] EXCEPT !.currentHP = @ - (u.damage \div 2)]
                     ELSE hit[j]]
             ELSE hit
  IN IF spl[t].currentHP <= 0
     THEN [spl EXCEPT ![t].isAlive = FALSE, ![i].target = NULL]
     ELSE spl

\* an Update that attacks only once the timer has passed the attack rate
ActOnTarget_LateAttack(us, i, tid, dt) ==
  LET u0  == [us[i] EXCEPT !.target = tid]
      us0 == [us EXCEPT ![i] = u0]
  IN IF tid # NULL /\ us0[IndexOf(us0, tid)].isAlive
     THEN LET t == IndexOf(us0, tid)
              distanceToTarget == CalculateDistance(u0.position, us0[t].position)
          IN IF distanceToTarget <= u0.attackRange
             THEN LET timer == u0.attackTimer + dt
                  IN IF timer > u0.attackRate
                     THEN [units |-> [Attack(us0, i, t) EXCEPT ![i].attackTimer = 0],
                           attacked |-> tid, moved |-> FALSE]
                     ELSE [units |-> [us0 EXCEPT ![i].attackTimer = timer],
                           attacked |-> NULL, moved |-> FALSE]
             ELSE [units |-> [us0 EXCEPT ![i] =
                                 [FollowPath(u0, dt) EXCEPT !.attackTimer = 0]],
                   attacked |-> NULL, moved |-> TRUE]
     ELSE [units |-> [us0 EXCEPT ![i] = FollowPath(u0, dt)],
           attacked |-> NULL, moved |-> TRUE]

\* Unit::Update from line 187 on: the unit has settled on the target tid
ActOnTarget(us, i, tid, dt) ==
  LET u0  == [us[i] EXCEPT !.target = tid]
      us0 == [us EXCEPT ![i] = u0]
  IN IF tid # NULL /\ us0[IndexOf(us0, tid)].isAlive
     THEN LET t == IndexOf(us0, tid)
              distanceToTarget == CalculateDistance(u0.position, us0[t].position)
          IN IF distanceToTarget <= u0.attackRange
             THEN LET timer == u0.attackTimer + dt
                  IN IF timer >= u0.attackRate
                     THEN [units |-> [Attack(us0, i, t) EXCEPT ![i].attackTimer = 0],
                           attacked |-> tid, moved |-> FALSE]
                     ELSE [units |-> [us0 EXCEPT ![i].attackTimer = timer],
                           attacked |-> NULL, moved |-> FALSE]
             ELSE [units |-> [us0 EXCEPT ![i] =
                                 [FollowPath(u0, dt) EXCEPT !.attackTimer = 0]],
                   attacked |-> NULL, moved |-> TRUE]
     ELSE [units |-> [us0 EXCEPT ![i] = FollowPath(u0, dt)],
           attacked |-> NULL, moved |-> TRUE]

\* an Update in which a frozen unit still follows its path
UnitUpdate_FrozenWalks(us, i, dt) ==
  LET u == us[i]
      quiet == [crashed |-> FALSE, dangling |-> FALSE, attacked |-> NULL,
                moved |-> FALSE]
  IN IF u.isFrozen
     THEN LET ft == u.freezeTimer - dt
          IN {quiet @@
              [units |-> [us EXCEPT ![i] = [FollowPath(u, dt) EXCEPT
                                              !.freezeTimer = ft,
                                              !.isFrozen = ~(ft <= 0)]]]}
     ELSE
       LET isDangling == u.target # NULL /\ ~Member(us, u.target)
           keep == /\ u.target # NULL
                   /\ Member(us, u.target)
                   /\ us[IndexOf(us, u.target)].isAlive
           tids == IF keep THEN {u.target} ELSE FindTargetWithPriority(us, i)
           acted == {[crashed |-> FALSE, dangling |-> isDangling] @@
                     ActOnTarget(us, i, tid, dt) : tid \in tids}
       IN IF isDangling
          THEN acted \cup {[quiet EXCEPT !.crashed = TRUE, !.dangling = TRUE]
                           @@ [units |-> us]}
          ELSE acted

\* an Update that searches for a target on every frame
UnitUpdate_AlwaysSearches(us, i, dt) ==
  LET u == us[i]
      quiet == [crashed |-> FALSE, dangling |-> FALSE, attacked |-> NULL,
                moved |-> FALSE]
  IN IF u.isFrozen
     THEN LET ft == u.freezeTimer - dt
          IN {[quiet EXCEPT !.crashed = FALSE] @@
              [units |-> [us EXCEPT ![i].freezeTimer = ft,
                                    ![i].isFrozen = ~(ft <= 0)]]}
     ELSE
       LET isDangling == u.target # NULL /\ ~Member(us, u.target)
           tids == FindTargetWithPriority(us, i)
           acted == {[crashed |-> FALSE, dangling |-> isDangling] @@
                     ActOnTarget(us, i, tid, dt) : tid \in tids}
       IN IF isDangling
          THEN acted \cup {[quiet EXCEPT !.crashed = TRUE, !.dangling = TRUE]
                           @@ [units |-> us]}
          ELSE acted

\* Unit::Update of a living unit: the set of outcomes.  Each outcome is the
\* list after the update, whether the process crashed, whether a dangling
\* target pointer was read, and the unit attacked (if any).
UnitUpdate(us, i, dt) ==
  LET u == us[i]
      quiet == [crashed |-> FALSE, dangling |-> FALSE, attacked |-> NULL,
                moved |-> FALSE]
  IN IF u.isFrozen
     THEN LET ft == u.freezeTimer - dt
          IN {[quiet EXCEPT !.crashed = FALSE] @@
              [units |-> [us EXCEPT ![i].freezeTimer = ft,
                                    ![i].isFrozen = ~(ft <= 0)]]}
     ELSE
       LET isDangling == u.target # NULL /\ ~Member(us, u.target)
           keep == /\ u.target # NULL
                   /\ Member(us, u.target)
                   /\ us[IndexOf(us, u.target)].isAlive
           tids == IF keep THEN {u.target} ELSE FindTargetWithPriority(us, i)
           acted == {[crashed |-> FALSE, dangling |-> isDangling] @@
                     ActOnTarget(us, i, tid, dt) : tid \in tids}
       IN IF isDangling
          THEN acted \cup {[quiet EXCEPT !.crashed = TRUE, !.dangling = TRUE]
                           @@ [units |-> us]}
          ELSE acted

\* ----------------------------------------------------------------- Tower
\* a pool update that does not test isAlive
TargetPool_NoAliveTest(tw, us) ==
  {[idx |-> j, distance |-> CalculateDistance(tw.position, us[j].position)] :
     j \in {k \in DOMAIN us :
              /\ us[k].isPlayer # tw.isPlayer
              /\ CalculateDistance(tw.position, us[k].position) < TOWER_RANGE}}

\* Tower::UpdateTargetQueue: the (unit, distance) pairs pushed
TargetPool(tw, us) ==
  {[idx |-> j, distance |-> CalculateDistance(tw.position, us[j].position)] :
     j \in {k \in DOMAIN us :
              /\ us[k].isAlive
              /\ us[k].isPlayer # tw.isPlayer
              /\ CalculateDistance(tw.position, us[k].position) < TOWER_RANGE}}

\* the ids targetQueue.top() may designate after the pushes
TopChoices(tw, us) ==
  LET pool == TargetPool(tw, us)
  IN IF pool = {} THEN {NULL}
     ELSE {us[c.idx].id :
             c \in Front(pool, {p \in pool \X pool :
                                   TowerTargetPriority(us, p[2], p[1])})}

\* Tower::Update with the element the heap put on top
TowerUpdate(tw, dt, us, top) ==
  IF ~tw.isAlive THEN tw
  ELSE [tw EXCEPT !.attackTimer = @ + dt,
                  !.targetQueue = {us[c.idx].id : c \in TargetPool(tw, us)},
                  !.top = top]

\* Tower::CanAttack
CanAttack(tw) == tw.attackTimer >= tw.attackRate

\* Tower::GetBestTarget
GetBestTarget(tw) == IF tw.targetQueue # {} THEN tw.top ELSE NULL

\* a tower attack that leaves the attack timer running
TowerAttack_KeepsTimer(tw, us) ==
  LET bestTarget == GetBestTarget(tw)
  IN IF CanAttack(tw) /\ bestTarget # NULL
     THEN LET inList == Member(us, bestTarget)
              shot == [byPlayer |-> tw.isPlayer, id |-> bestTarget,
                       member |-> inList,
                       alive |-> inList /\ us[IndexOf(us, bestTarget)].isAlive]
          IN [tower |-> tw,
              units |-> IF inList
                        THEN [us EXCEPT ![IndexOf(us, bestTarget)].currentHP =
                                            @ - tw.damage]
                        ELSE us,
              shots |-> {shot}]
     ELSE [tower |-> tw, units |-> us, shots |-> {}]

\* One tower's half of Game::HandleTowerAttacks.  The result holds the tower,
\* the list, and the shot fired (if any): whom it was aimed at and whether
\* that object was still in the list, and alive, when the damage was written.
TowerAttack(tw, us) ==
  LET bestTarget == GetBestTarget(tw)
  IN IF CanAttack(tw) /\ bestTarget # NULL
     THEN LET inList == Member(us, bestTarget)
              shot == [byPlayer |-> tw.isPlayer, id |-> bestTarget,
                       member |-> inList,
                       alive |-> inList /\ us[IndexOf(us, bestTarget)].isAlive]
          IN [tower |-> [tw EXCEPT !.attackTimer = 0],
              units |-> IF inList
                        THEN [us EXCEPT ![IndexOf(us, bestTarget)].currentHP =
                                            @ - tw.damage]
                        ELSE us,
              shots |-> {shot}]
     ELSE [tower |-> tw, units |-> us, shots |-> {}]

\* ------------------------------------------------------------------ Game
\* a lane-end check that does not clamp the fallen tower's health at 0
LaneEnd_NoClamp(u, pt, et, over, win) ==
  IF u.isPlayer /\ u.position >= et.position - LaneEndBand
  THEN LET hp == et.currentHP - u.damage
       IN IF hp <= 0
          THEN [playerTower |-> pt,
                enemyTower |-> [et EXCEPT !.currentHP = hp, !.isAlive = FALSE],
                gameOver |-> TRUE, winner |-> "Player Wins!", hit |-> TRUE]
          ELSE [playerTower |-> pt, enemyTower |-> [et EXCEPT !.currentHP = hp],
                gameOver |-> over, winner |-> win, hit |-> TRUE]
  ELSE IF ~u.isPlayer /\ u.position <= pt.position + LaneEndBand
  THEN LET hp == pt.currentHP - u.damage
       IN IF hp <= 0
          THEN [playerTower |-> [pt EXCEPT !.currentHP = hp, !.isAlive = FALSE],
                enemyTower |-> et,
                gameOver |-> TRUE, winner |-> "Enemy Wins!", hit |-> TRUE]
          ELSE [playerTower |-> [pt EXCEPT !.currentHP = hp], enemyTower |-> et,
                gameOver |-> over, winner |-> win, hit |-> TRUE]
  ELSE [playerTower |-> pt, enemyTower |-> et, gameOver |-> over,
        winner |-> win, hit |-> FALSE]

\* a lane-end check without the enemy units' branch
LaneEnd_PlayerSideOnly(u, pt, et, over, win) ==
  IF u.isPlayer /\ u.position >= et.position - LaneEndBand
  THEN LET hp == et.currentHP - u.damage
       IN IF hp <= 0
          THEN [playerTower |-> pt,
                enemyTower |-> [et EXCEPT !.currentHP = 0, !.isAlive = FALSE],
                gameOver |-> TRUE, winner |-> "Player Wins!", hit |-> TRUE]
          ELSE [playerTower |-> pt, enemyTower |-> [et EXCEPT !.currentHP = hp],
                gameOver |-> over, winner |-> win, hit |-> TRUE]
  ELSE [playerTower |-> pt, enemyTower |-> et, gameOver |-> over,
        winner |-> win, hit |-> FALSE]

\* the lane-end check of the unit loop (Game::Update, lines 692-711)
LaneEnd(u, pt, et, over, win) ==
  IF u.isPlayer /\ u.position >= et.position - LaneEndBand
  THEN LET hp == et.currentHP - u.damage
       IN IF hp <= 0
          THEN [playerTower |-> pt,
                enemyTower |-> [et EXCEPT !.currentHP = 0, !.isAlive = FALSE],
                gameOver |-> TRUE, winner |-> "Player Wins!", hit |-> TRUE]
          ELSE [playerTower |-> pt, enemyTower |-> [et EXCEPT !.currentHP = hp],
                gameOver |-> over, winner |-> win, hit |-> TRUE]
  ELSE IF ~u.isPlayer /\ u.position <= pt.position + LaneEndBand
  THEN LET hp == pt.currentHP - u.damage
       IN IF hp <= 0
          THEN [playerTower |-> [pt EXCEPT !.currentHP = 0, !.isAlive = FALSE],
                enemyTower |-> et,
                gameOver |-> TRUE, winner |-> "Enemy Wins!", hit |-> TRUE]
          ELSE [playerTower |-> [pt EXCEPT !.currentHP = hp], enemyTower |-> et,
                gameOver |-> over, winner |-> win, hit |-> TRUE]
  ELSE [playerTower |-> pt, enemyTower |-> et, gameOver |-> over,
        winner |-> win, hit |-> FALSE]

\* an entry that is finished one unit late
EntryFinished_OneLate(spawned, count) == spawned > count

\* Game::HandleWaveProgression, line 1071: the entry has spawned its count
EntryFinished(spawned, count) == spawned >= count

\* a decay that has no floor
DecaySpawnRate_NoFloor(rate) == (rate * 9) \div 10

\* Game::HandleWaveProgression, line 1094: std::max(2.0f, spawnRate * 0.9f),
\* in whole milliseconds
DecaySpawnRate(rate) ==
  IF (rate * 9) \div 10 > MinSpawnRate THEN (rate * 9) \div 10
  ELSE MinSpawnRate

\* Game::HandleWaveProgression on the sequencer state w; the result carries
\* the type of the enemy unit to push_back, or "none"
HandleWaveProgression(w, dt, over) ==
  IF over THEN [w EXCEPT !.spawn = "none"]
  ELSE IF w.isBetweenWaves
  THEN LET t == w.betweenWavesTimer - dt
       IN IF t <= 0
          THEN [w EXCEPT !.betweenWavesTimer = t, !.isBetweenWaves = FALSE,
                         !.waveSpawnTimer = 0, !.currentUnitTypeIndex = 0,
                         !.unitsSpawnedForCurrentType = 0, !.spawn = "none"]
          ELSE [w EXCEPT !.betweenWavesTimer = t, !.spawn = "none"]
  ELSE
  LET timer == w.waveSpawnTimer + dt
      comp  == WaveUnits[w.currentWave]
  IN IF w.currentUnitTypeIndex < Len(comp)
     THEN LET currentUnitType == comp[w.currentUnitTypeIndex + 1]
          IN IF /\ timer >= w.spawnRate[w.currentWave]
                /\ w.unitsSpawnedForCurrentType < currentUnitType[2]
             THEN IF EntryFinished(w.unitsSpawnedForCurrentType + 1,
                                   currentUnitType[2])
                  THEN [w EXCEPT !.waveSpawnTimer = 0,
                                 !.currentUnitTypeIndex = @ + 1,
                                 !.unitsSpawnedForCurrentType = 0,
                                 !.spawn = currentUnitType[1]]
                  ELSE [w EXCEPT !.waveSpawnTimer = 0,
                                 !.unitsSpawnedForCurrentType = @ + 1,
                                 !.spawn = currentUnitType[1]]
             ELSE [w EXCEPT !.waveSpawnTimer = timer, !.spawn = "none"]
     ELSE IF w.currentWave < NumWaves
          THEN [w EXCEPT !.waveSpawnTimer = timer, !.isBetweenWaves = TRUE,
                         !.betweenWavesTimer = WaveCooldown,
                         !.currentWave = @ + 1, !.spawn = "none"]
          ELSE [w EXCEPT !.waveSpawnTimer = timer, !.isBetweenWaves = TRUE,
                         !.betweenWavesTimer = WaveCooldown,
                         !.currentWave = 1,
                         !.spawnRate = [k \in DOMAIN @ |->
                                          DecaySpawnRate(@[k])],
                         !.spawn = "none"]

WaveState ==
  [spawnRate |-> spawnRate, currentWave |-> currentWave,
   waveSpawnTimer |-> waveSpawnTimer,
   currentUnitTypeIndex |-> currentUnitTypeIndex,
   unitsSpawnedForCurrentType |-> unitsSpawnedForCurrentType,
   isBetweenWaves |-> isBetweenWaves, betweenWavesTimer |-> betweenWavesTimer,
   spawn |-> "none"]

\* ---------------------------------------------------------------- actions
\* Game::Game
Init ==
  /\ currentState = "START_SCREEN"
  /\ playerTower = NewTower(TRUE)
  /\ enemyTower = NewTower(FALSE)
  /\ units = <<>>
  /\ playerElixir = InitialElixir
  /\ enemyElixir = InitialElixir
  /\ elixirTimer = 0
  /\ gameOver = FALSE
  /\ winner = ""
  /\ freezeAvailable = TRUE
  /\ freezeCooldown = 0
  /\ gameTimer = GAME_TIME_LIMIT
  /\ spawnRate = InitialSpawnRates
  /\ currentWave = 1
  /\ waveSpawnTimer = 0
  /\ currentUnitTypeIndex = 0
  /\ unitsSpawnedForCurrentType = 0
  /\ isBetweenWaves = FALSE
  /\ betweenWavesTimer = 0
  /\ pc = "idle"
  /\ it = 1
  /\ deltaTime = 0
  /\ nextId = 1
  /\ ticks = 0
  /\ spawns = 0
  /\ obs = NoObs
  /\ deadBefore = {}
  /\ visited = <<>>
  /\ waveLog = <<>>
  /\ projectiles = <<>>

tickVars == <<pc, it, deltaTime, deadBefore, visited>>

\* the guards of SpawnUnit without the phase test of line 819
SpawnHonoured_NoPhaseTest(type) == playerElixir >= getUnitStats(type).cost

\* the two guards of Game::SpawnUnit (lines 819 and 822)
SpawnHonoured(type) ==
  currentState = "PLAYING" /\ playerElixir >= getUnitStats(type).cost

\* Game::SpawnUnit
SpawnUnit(type) ==
  /\ pc = "idle"
  /\ IF SpawnHonoured(type)
     THEN /\ units' = Append(units, NewUnit(nextId, type, TRUE))
          /\ playerElixir' = playerElixir - getUnitStats(type).cost
          /\ nextId' = nextId + 1
          /\ spawns' = spawns + 1
          /\ obs' = [NoObs EXCEPT !.op = "SpawnUnit", !.type = type,
                                  !.unit = nextId]
     ELSE /\ UNCHANGED <<units, playerElixir, nextId, spawns>>
          /\ obs' = [NoObs EXCEPT !.op = "SpawnUnit", !.type = type,
                                  !.ok = FALSE]
  /\ UNCHANGED <<currentState, playerTower, enemyTower, enemyElixir,
                 elixirTimer, freezeAvailable, freezeCooldown, gameTimer,
                 gameOver, winner, spawnRate, currentWave, waveSpawnTimer,
                 currentUnitTypeIndex, unitsSpawnedForCurrentType,
                 isBetweenWaves, betweenWavesTimer, pc, it, deltaTime, ticks,
                 deadBefore, visited, waveLog, projectiles>>

\* an ActivateFreeze that freezes the units of both sides
ActivateFreeze_BothSides ==
  /\ pc = "idle"
  /\ IF currentState = "PLAYING" /\ freezeAvailable
     THEN /\ units' = [j \in DOMAIN units |->
                         IF units[j].isAlive
                         THEN [units[j] EXCEPT !.isFrozen = TRUE,
                                               !.freezeTimer = FREEZE_DURATION]
                         ELSE units[j]]
          /\ freezeAvailable' = FALSE
          /\ freezeCooldown' = FREEZE_COOLDOWN
          /\ projectiles' = projectiles \o CreateFreezeEffect
          /\ obs' = [NoObs EXCEPT !.op = "ActivateFreeze"]
     ELSE /\ UNCHANGED <<units, freezeAvailable, freezeCooldown, projectiles>>
          /\ obs' = [NoObs EXCEPT !.op = "ActivateFreeze", !.ok = FALSE]
  /\ UNCHANGED <<currentState, playerTower, enemyTower, playerElixir,
                 enemyElixir, elixirTimer, gameTimer, gameOver, winner,
                 spawnRate, currentWave, waveSpawnTimer, currentUnitTypeIndex,
                 unitsSpawnedForCurrentType, isBetweenWaves, betweenWavesTimer,
                 pc, it, deltaTime, nextId, ticks, spawns, deadBefore, visited,
                 waveLog>>

\* an ActivateFreeze that does not test freezeAvailable (line 830)
ActivateFreeze_NoAvailableTest ==
  /\ pc = "idle"
  /\ IF currentState = "PLAYING"
     THEN /\ units' = [j \in DOMAIN units |->
                         IF ~units[j].isPlayer /\ units[j].isAlive
                         THEN [units[j] EXCEPT !.isFrozen = TRUE,
                                               !.freezeTimer = FREEZE_DURATION]
                         ELSE units[j]]
          /\ freezeAvailable' = FALSE
          /\ freezeCooldown' = FREEZE_COOLDOWN
          /\ projectiles' = projectiles \o CreateFreezeEffect
          /\ obs' = [NoObs EXCEPT !.op = "ActivateFreeze"]
     ELSE /\ UNCHANGED <<units, freezeAvailable, freezeCooldown, projectiles>>
          /\ obs' = [NoObs EXCEPT !.op = "ActivateFreeze", !.ok = FALSE]
  /\ UNCHANGED <<currentState, playerTower, enemyTower, playerElixir,
                 enemyElixir, elixirTimer, gameTimer, gameOver, winner,
                 spawnRate, currentWave, waveSpawnTimer, currentUnitTypeIndex,
                 unitsSpawnedForCurrentType, isBetweenWaves, betweenWavesTimer,
                 pc, it, deltaTime, nextId, ticks, spawns, deadBefore, visited,
                 waveLog>>

\* Game::ActivateFreeze
ActivateFreeze ==
  /\ pc = "idle"
  /\ IF currentState = "PLAYING" /\ freezeAvailable
     THEN /\ units' = [j \in DOMAIN units |->
                         IF ~units[j].isPlayer /\ units[j].isAlive
                         THEN [units[j] EXCEPT !.isFrozen = TRUE,
                                               !.freezeTimer = FREEZE_DURATION]
                         ELSE units[j]]
          /\ freezeAvailable' = FALSE
          /\ freezeCooldown' = FREEZE_COOLDOWN
          /\ projectiles' = projectiles \o CreateFreezeEffect
          /\ obs' = [NoObs EXCEPT !.op = "ActivateFreeze"]
     ELSE /\ UNCHANGED <<units, freezeAvailable, freezeCooldown, projectiles>>
          /\ obs' = [NoObs EXCEPT !.op = "ActivateFreeze", !.ok = FALSE]
  /\ UNCHANGED <<currentState, playerTower, enemyTower, playerElixir,
                 enemyElixir, elixirTimer, gameTimer, gameOver, winner,
                 spawnRate, currentWave, waveSpawnTimer, currentUnitTypeIndex,
                 unitsSpawnedForCurrentType, isBetweenWaves, betweenWavesTimer,
                 pc, it, deltaTime, nextId, ticks, spawns, deadBefore, visited,
                 waveLog>>

\* a start screen that starts the match on any frame
UpdateStartScreen_NoKeyTest(enter) ==
  /\ pc = "idle"
  /\ currentState = "START_SCREEN"
  /\ currentState' = "PLAYING"
  /\ obs' = [NoObs EXCEPT !.op = "UpdateStartScreen", !.ok = enter]
  /\ UNCHANGED <<playerTower, enemyTower, units, playerElixir, enemyElixir,
                 elixirTimer, freezeAvailable, freezeCooldown, gameTimer,
                 gameOver, winner, spawnRate, currentWave, waveSpawnTimer,
                 currentUnitTypeIndex, unitsSpawnedForCurrentType,
                 isBetweenWaves, betweenWavesTimer, pc, it, deltaTime, nextId,
                 ticks, spawns, deadBefore, visited, waveLog, projectiles>>

\* Game::Update on the start screen (lines 635-641); enter: KEY_ENTER pressed
UpdateStartScreen(enter) ==
  /\ pc = "idle"
  /\ currentState = "START_SCREEN"
  /\ currentState' = IF enter THEN "PLAYING" ELSE currentState
  /\ obs' = [NoObs EXCEPT !.op = "UpdateStartScreen", !.ok = enter]
  /\ UNCHANGED <<playerTower, enemyTower, units, playerElixir, enemyElixir,
                 elixirTimer, freezeAvailable, freezeCooldown, gameTimer,
                 gameOver, winner, spawnRate, currentWave, waveSpawnTimer,
                 currentUnitTypeIndex, unitsSpawnedForCurrentType,
                 isBetweenWaves, betweenWavesTimer, pc, it, deltaTime, nextId,
                 ticks, spawns, deadBefore, visited, waveLog, projectiles>>

\* a Reset that leaves the countdown where the match ended
Reset_KeepsCountdown ==
  /\ units' = <<>>
  /\ playerTower' = NewTower(TRUE)
  /\ enemyTower' = NewTower(FALSE)
  /\ playerElixir' = InitialElixir
  /\ enemyElixir' = InitialElixir
  /\ elixirTimer' = 0
  /\ gameOver' = FALSE
  /\ winner' = ""
  /\ freezeAvailable' = TRUE
  /\ freezeCooldown' = 0
  /\ currentWave' = 1
  /\ waveSpawnTimer' = 0
  /\ currentUnitTypeIndex' = 0
  /\ unitsSpawnedForCurrentType' = 0
  /\ isBetweenWaves' = FALSE
  /\ betweenWavesTimer' = 0
  /\ nextId' = 1
  /\ ticks' = 0
  /\ spawns' = 0
  /\ deadBefore' = {}
  /\ visited' = <<>>
  /\ waveLog' = <<>>
  /\ projectiles' = <<>>
  /\ UNCHANGED <<spawnRate, gameTimer>>

\* Game::Reset (heap addresses and the match counters start over with it)
Reset ==
  /\ units' = <<>>
  /\ playerTower' = NewTower(TRUE)
  /\ enemyTower' = NewTower(FALSE)
  /\ playerElixir' = InitialElixir
  /\ enemyElixir' = InitialElixir
  /\ elixirTimer' = 0
  /\ gameOver' = FALSE
  /\ winner' = ""
  /\ gameTimer' = GAME_TIME_LIMIT
  /\ freezeAvailable' = TRUE
  /\ freezeCooldown' = 0
  /\ currentWave' = 1
  /\ waveSpawnTimer' = 0
  /\ currentUnitTypeIndex' = 0
  /\ unitsSpawnedForCurrentType' = 0
  /\ isBetweenWaves' = FALSE
  /\ betweenWavesTimer' = 0
  /\ nextId' = 1
  /\ ticks' = 0
  /\ spawns' = 0
  /\ deadBefore' = {}
  /\ visited' = <<>>
  /\ waveLog' = <<>>
  /\ projectiles' = <<>>
  /\ UNCHANGED spawnRate

\* Game::Update on the game-over screen (lines 643-650); r: KEY_R pressed.
\* The observation keeps the outcome on the screen and the number of units
\* on the field.
UpdateGameOver(r) ==
  /\ pc = "idle"
  /\ currentState = "GAME_OVER"
  /\ IF r
     THEN /\ Reset
          /\ currentState' = "PLAYING"
     ELSE UNCHANGED <<currentState, playerTower, enemyTower, units,
                      playerElixir, enemyElixir, elixirTimer, freezeAvailable,
                      freezeCooldown, gameTimer, gameOver, winner, spawnRate,
                      currentWave, waveSpawnTimer, currentUnitTypeIndex,
                      unitsSpawnedForCurrentType, isBetweenWaves,
                      betweenWavesTimer, nextId, ticks, spawns, deadBefore,
                      visited, waveLog, projectiles>>
  /\ obs' = [NoObs EXCEPT !.op = "UpdateGameOver", !.ok = r,
                          !.type = winner, !.hp = Len(units)]
  /\ UNCHANGED <<pc, it, deltaTime>>

\* Game::Update, lines 652-655: the frame that finds gameOver set
UpdateEndMatch ==
  /\ pc = "idle"
  /\ currentState = "PLAYING"
  /\ gameOver
  /\ currentState' = "GAME_OVER"
  /\ obs' = [NoObs EXCEPT !.op = "UpdateEndMatch"]
  /\ UNCHANGED <<playerTower, enemyTower, units, playerElixir, enemyElixir,
                 elixirTimer, freezeAvailable, freezeCooldown, gameTimer,
                 gameOver, winner, spawnRate, currentWave, waveSpawnTimer,
                 currentUnitTypeIndex, unitsSpawnedForCurrentType,
                 isBetweenWaves, betweenWavesTimer, pc, it, deltaTime, nextId,
                 ticks, spawns, deadBefore, visited, waveLog, projectiles>>

\* the accrual without the cap test of line 678
ElixirAccrue_NoCap(e) == e + 1

\* Game::Update, lines 678-679: one elixir point, up to the cap
ElixirAccrue(e) == IF e < MAX_ELIXIR THEN e + 1 ELSE e

\* a cooldown step that never makes the freeze available again
UpdateFreezeCooldown_NeverReady(available, cooldown, dt) ==
  IF ~available
  THEN LET cd == cooldown - dt
       IN [freezeAvailable |-> FALSE,
           freezeCooldown |-> IF cd <= 0 THEN 0 ELSE cd]
  ELSE [freezeAvailable |-> available, freezeCooldown |-> cooldown]

\* Game::Update, lines 657-664: the freeze ability's cooldown
UpdateFreezeCooldown(available, cooldown, dt) ==
  IF ~available
  THEN LET cd == cooldown - dt
       IN [freezeAvailable |-> (cd <= 0),
           freezeCooldown |-> IF cd <= 0 THEN 0 ELSE cd]
  ELSE [freezeAvailable |-> available, freezeCooldown |-> cooldown]

\* a countdown that does not run
UpdateGameTimer_Stopped(timer, over, win, dt) ==
  [gameTimer |-> timer, gameOver |-> over, winner |-> win]

\* a countdown that stops at 0 without ending the match
UpdateGameTimer_NoTimeout(timer, over, win, dt) ==
  LET gt == timer - dt
  IN [gameTimer |-> IF gt <= 0 THEN 0 ELSE gt, gameOver |-> over,
      winner |-> win]

\* Game::Update, lines 666-673: the match countdown
UpdateGameTimer(timer, over, win, dt) ==
  LET gt == timer - dt
  IN IF gt <= 0
     THEN [gameTimer |-> 0, gameOver |-> TRUE, winner |-> "Draw"]
     ELSE [gameTimer |-> gt, gameOver |-> over, winner |-> win]

\* Game::Update, lines 657-685: timers, elixir and the towers' updates.
\* pt, et: the elements the two heaps put on top.
UpdateBegin(dt) ==
  /\ pc = "idle"
  /\ currentState = "PLAYING"
  /\ ~gameOver
  /\ ticks < MaxTicks
  /\ LET f == UpdateFreezeCooldown(freezeAvailable, freezeCooldown, dt)
     IN /\ freezeAvailable' = f.freezeAvailable
        /\ freezeCooldown' = f.freezeCooldown
  /\ LET g == UpdateGameTimer(gameTimer, gameOver, winner, dt)
     IN /\ gameTimer' = g.gameTimer
        /\ gameOver' = g.gameOver
        /\ winner' = g.winner
  /\ LET et == elixirTimer + dt
     IN IF et >= ELIXIR_RATE
        THEN /\ playerElixir' = ElixirAccrue(playerElixir)
             /\ enemyElixir' = ElixirAccrue(enemyElixir)
             /\ elixirTimer' = 0
        ELSE /\ elixirTimer' = et
             /\ UNCHANGED <<playerElixir, enemyElixir>>
  /\ \E ptop \in TopChoices(playerTower, units) :
        playerTower' = TowerUpdate(playerTower, dt, units, ptop)
  /\ \E etop \in TopChoices(enemyTower, units) :
        enemyTower' = TowerUpdate(enemyTower, dt, units, etop)
  /\ deltaTime' = dt
  /\ it' = 1
  /\ pc' = IF units = <<>> THEN "attacks" ELSE "units"
  /\ obs' = [NoObs EXCEPT !.op = "UpdateBegin"]
  /\ deadBefore' = {units[j].id : j \in {k \in DOMAIN units : ~units[k].isAlive}}
  /\ visited' = <<>>
  /\ UNCHANGED <<currentState, units, spawnRate, currentWave, waveSpawnTimer,
                 currentUnitTypeIndex, unitsSpawnedForCurrentType,
                 isBetweenWaves, betweenWavesTimer, nextId, ticks, spawns,
                 waveLog, projectiles>>

\* Game::Update, lines 688-717: one iteration of the unit loop
UnitLoopStep ==
  /\ pc = "units"
  /\ IF units[it].isAlive
     THEN \E out \in UnitUpdate(units, it, deltaTime) :
            IF out.crashed
            THEN /\ pc' = "crashed"
                 /\ obs' = [NoObs EXCEPT !.op = "UnitUpdate", !.ok = FALSE,
                                         !.unit = units[it].id,
                                         !.dangling = TRUE]
                 /\ UNCHANGED <<units, playerTower, enemyTower, gameOver,
                                winner, it, visited, projectiles>>
            ELSE LET le == LaneEnd(out.units[it], playerTower, enemyTower,
                                   gameOver, winner)
                 IN /\ units' = out.units
                    /\ playerTower' = le.playerTower
                    /\ enemyTower' = le.enemyTower
                    /\ gameOver' = le.gameOver
                    /\ winner' = le.winner
                    /\ it' = it + 1
                    /\ visited' = Append(visited, units[it].id)
                    /\ projectiles' = IF le.hit
                                      THEN projectiles \o CreateAttackEffect
                                      ELSE projectiles
                    /\ pc' = IF it + 1 > Len(out.units) THEN "attacks"
                             ELSE "units"
                    /\ obs' = [NoObs EXCEPT
                                 !.op = "UnitUpdate",
                                 !.unit = units[it].id,
                                 !.frozen = units[it].isFrozen,
                                 !.prev = units[it].target,
                                 !.dangling = out.dangling,
                                 !.attacked = out.attacked,
                                 !.moved = out.moved,
                                 !.killed = /\ out.attacked # NULL
                                            /\ ~out.units[IndexOf(out.units,
                                                    out.attacked)].isAlive]
     ELSE /\ units' = RemoveAt(units, it)
          /\ it' = it
          /\ pc' = IF it > Len(units) - 1 THEN "attacks" ELSE "units"
          /\ obs' = [NoObs EXCEPT !.op = "UnitErase", !.unit = units[it].id,
                                  !.hp = units[it].currentHP]
          /\ UNCHANGED <<playerTower, enemyTower, gameOver, winner, visited,
                         projectiles>>
  /\ UNCHANGED <<currentState, playerElixir, enemyElixir, elixirTimer,
                 freezeAvailable, freezeCooldown, gameTimer, spawnRate,
                 currentWave, waveSpawnTimer, currentUnitTypeIndex,
                 unitsSpawnedForCurrentType, isBetweenWaves, betweenWavesTimer,
                 deltaTime, nextId, ticks, spawns, deadBefore, waveLog>>

\* Game::Update, lines 729-733: HandleTowerAttacks, then HandleWaveProgression.
\* A shot written through a dangling pointer is undefined behaviour: the write
\* is lost in the freed object, or the process crashes.
UpdateFinish ==
  /\ pc = "attacks"
  /\ LET pa == TowerAttack(playerTower, units)
         ea == TowerAttack(enemyTower, pa.units)
         w  == HandleWaveProgression(WaveState, deltaTime, gameOver)
         shots == pa.shots \cup ea.shots
         wild == \E sh \in shots : ~sh.member
     IN \E crash \in IF wild THEN {FALSE, TRUE} ELSE {FALSE} :
        IF crash
        THEN /\ pc' = "crashed"
             /\ obs' = [NoObs EXCEPT !.op = "UpdateFinish", !.ok = FALSE,
                                     !.shots = shots]
             /\ UNCHANGED <<playerTower, enemyTower, units, spawnRate,
                            currentWave, waveSpawnTimer, currentUnitTypeIndex,
                            unitsSpawnedForCurrentType, isBetweenWaves,
                            betweenWavesTimer, nextId, ticks, waveLog,
                            projectiles>>
        ELSE /\ playerTower' = pa.tower
             /\ enemyTower' = ea.tower
             /\ units' = IF w.spawn # "none"
                         THEN Append(ea.units, NewUnit(nextId, w.spawn, FALSE))
                         ELSE ea.units
             /\ nextId' = IF w.spawn # "none" THEN nextId + 1 ELSE nextId
             /\ projectiles' =
                  UpdateProjectiles(projectiles, deltaTime)
                    \o (IF pa.shots = {} THEN <<>> ELSE CreateAttackEffect)
                    \o (IF ea.shots = {} THEN <<>> ELSE CreateAttackEffect)
             /\ waveLog' = IF w.spawn # "none" THEN Append(waveLog, w.spawn)
                           ELSE waveLog
             /\ spawnRate' = w.spawnRate
             /\ currentWave' = w.currentWave
             /\ waveSpawnTimer' = w.waveSpawnTimer
             /\ currentUnitTypeIndex' = w.currentUnitTypeIndex
             /\ unitsSpawnedForCurrentType' = w.unitsSpawnedForCurrentType
             /\ isBetweenWaves' = w.isBetweenWaves
             /\ betweenWavesTimer' = w.betweenWavesTimer
             /\ ticks' = ticks + 1
             /\ pc' = "idle"
             /\ obs' = [NoObs EXCEPT !.op = "UpdateFinish", !.shots = shots,
                                     !.type = w.spawn]
  /\ UNCHANGED <<currentState, playerElixir, enemyElixir, elixirTimer,
                 freezeAvailable, freezeCooldown, gameTimer, gameOver, winner,
                 it, deltaTime, spawns, deadBefore, visited>>

\* the player's key presses of a frame (main, lines 1143-1154), on the frames
\* the exploration covers
KeySpawn ==
  /\ ticks \in KeyFrames
  /\ \E type \in UnitTypes :
        /\ SpawnHonoured(type) => spawns < MaxSpawns
        /\ SpawnUnit(type)

\* the F key (main, lines 1150-1153); outside a match the press is explored on
\* every frame
KeyFreeze ==
  /\ currentState # "PLAYING" \/ ticks \in FreezeFrames
  /\ ActivateFreeze

Next ==
  \/ KeySpawn
  \/ KeyFreeze
  \/ \E enter \in BOOLEAN : UpdateStartScreen(enter)
  \/ \E r \in BOOLEAN : UpdateGameOver(r)
  \/ UpdateEndMatch
  \/ \E dt \in DeltaTimes : UpdateBegin(dt)
  \/ UnitLoopStep
  \/ UpdateFinish

Spec == Init /\ [][Next]_vars

\* ------------------------------------------- mid-match lane situations
\* A second starting point for the exploration: a match in progress, wave 2
\* over, one player Knight on the lane and up to three enemy units around it,
\* in any list order.  Positions are ones the units' step sizes reach
\* (a Knight advances 8 per frame from its spawn position, a Wizard 5), the
\* health values are a Knight's after 0, 1 and 2 Knight hits, and the path of
\* a unit holds the waypoints it has not reached yet (generatePath/FollowPath).
LaneUnit(id, type, isPlayer, x, hp, alive) ==
  LET u == NewUnit(id, type, isPlayer)
      p == SelectSeq(u.path, LAMBDA w : IF isPlayer THEN w >= x ELSE w <= x)
  IN [u EXCEPT !.position = x, !.currentHP = hp, !.isAlive = alive,
               !.path = p, !.currentTargetPos = p[1]]

LaneAttacker == LaneUnit(1, "KNIGHT", TRUE, PlayerSpawnX + 23 * 8000, 300, TRUE)

LaneOptions ==
  {[type |-> "KNIGHT", x |-> EnemySpawnX - k * 8000, hp |-> h, alive |-> TRUE] :
      k \in {86, 87, 88}, h \in {300, 240, 180}}
  \cup {[type |-> "KNIGHT", x |-> EnemySpawnX - 89 * 8000, hp |-> 0,
         alive |-> FALSE],
        [type |-> "KNIGHT", x |-> EnemySpawnX - 81 * 8000, hp |-> 300,
         alive |-> TRUE],
        [type |-> "WIZARD", x |-> EnemySpawnX - 140 * 5000, hp |-> 180,
         alive |-> TRUE]}

LaneLists ==
  {cs \in UNION {[1..n -> LaneOptions] : n \in 0..3} :
      \A k, l \in DOMAIN cs : cs[k].x = cs[l].x => k = l}

InitLane ==
  /\ currentState = "PLAYING"
  /\ playerTower = [NewTower(TRUE) EXCEPT !.attackTimer = TOWER_ATTACK_RATE]
  /\ enemyTower = [NewTower(FALSE) EXCEPT !.attackTimer = TOWER_ATTACK_RATE]
  /\ \E cs \in LaneLists :
        /\ units = <<LaneAttacker>> \o
                   [j \in DOMAIN cs |->
                      LaneUnit(j + 1, cs[j].type, FALSE, cs[j].x, cs[j].hp,
                               cs[j].alive)]
        /\ nextId = Len(cs) + 2
  /\ playerElixir = InitialElixir
  /\ enemyElixir = MAX_ELIXIR
  /\ elixirTimer = 0
  /\ gameOver = FALSE
  /\ winner = ""
  /\ freezeAvailable = TRUE
  /\ freezeCooldown = 0
  /\ gameTimer = GAME_TIME_LIMIT \div 2
  /\ spawnRate = InitialSpawnRates
  /\ currentWave = 3
  /\ waveSpawnTimer = 0
  /\ currentUnitTypeIndex = Len(WaveUnits[2])
  /\ unitsSpawnedForCurrentType = 0
  /\ isBetweenWaves = TRUE
  /\ betweenWavesTimer = WaveCooldown
  /\ pc = "idle"
  /\ it = 1
  /\ deltaTime = 0
  /\ ticks = MaxTicks - LaneTicks
  /\ spawns = 0
  /\ obs = NoObs
  /\ deadBefore = {}
  /\ visited = <<>>
  /\ waveLog = WavesUpTo(2)
  /\ projectiles = <<>>

NextLane ==
  \/ \E dt \in DeltaTimes : UpdateBegin(dt)
  \/ UnitLoopStep
  \/ UpdateFinish

SpecLane == InitLane /\ [][NextLane]_vars

\* ------------------------------------------------- splash situations
\* A further starting point, for the Wizard's area damage: a match in
\* progress, wave 2 over, a player Wizard at x = 350 one frame from its next
\* attack on an enemy Knight at x = 450 (distance 100, inside its range of
\* 120), and around that Knight up to three of: an enemy Archer at exactly
\* the splash radius (x = 510), an enemy Giant inside it (x = 502), an enemy
\* Wizard outside it (x = 520), a dead enemy Knight inside it (x = 458) and
\* a player Knight inside it (x = 430).  The positions are ones the units'
\* step sizes reach from their spawn positions.
SplashAttacker ==
  [LaneUnit(1, "WIZARD", TRUE, PlayerSpawnX + 40 * 5000, 180, TRUE)
     EXCEPT !.target = 2, !.attackTimer = @ + 2400]

SplashTarget == LaneUnit(2, "KNIGHT", FALSE, EnemySpawnX - 75 * 8000, 300, TRUE)

SplashOptions ==
  <<[type |-> "ARCHER", isPlayer |-> FALSE, x |-> EnemySpawnX - 90 * 6000,
     hp |-> 150, alive |-> TRUE],
    [type |-> "GIANT", isPlayer |-> FALSE, x |-> EnemySpawnX - 137 * 4000,
     hp |-> 1000, alive |-> TRUE],
    [type |-> "WIZARD", isPlayer |-> FALSE, x |-> EnemySpawnX - 106 * 5000,
     hp |-> 180, alive |-> TRUE],
    [type |-> "KNIGHT", isPlayer |-> FALSE, x |-> EnemySpawnX - 74 * 8000,
     hp |-> 0, alive |-> FALSE],
    [type |-> "KNIGHT", isPlayer |-> TRUE, x |-> PlayerSpawnX + 35 * 8000,
     hp |-> 300, alive |-> TRUE]>>

\* the bystanders of one situation: up to three options, in the order above
SplashLists ==
  {SelectSeq(SplashOptions, LAMBDA o : o \in S) :
     S \in {T \in SUBSET {SplashOptions[k] : k \in DOMAIN SplashOptions} :
              Cardinality(T) <= 3}}

InitSplash ==
  /\ currentState = "PLAYING"
  /\ playerTower = [NewTower(TRUE) EXCEPT !.attackTimer = TOWER_ATTACK_RATE]
  /\ enemyTower = [NewTower(FALSE) EXCEPT !.attackTimer = TOWER_ATTACK_RATE]
  /\ \E cs \in SplashLists :
        /\ units = <<SplashAttacker, SplashTarget>> \o
                   [j \in DOMAIN cs |->
                      LaneUnit(j + 2, cs[j].type, cs[j].isPlayer, cs[j].x,
                               cs[j].hp, cs[j].alive)]
        /\ nextId = Len(cs) + 3
  /\ playerElixir = InitialElixir
  /\ enemyElixir = MAX_ELIXIR
  /\ elixirTimer = 0
  /\ gameOver = FALSE
  /\ winner = ""
  /\ freezeAvailable = TRUE
  /\ freezeCooldown = 0
  /\ gameTimer = GAME_TIME_LIMIT \div 2
  /\ spawnRate = InitialSpawnRates
  /\ currentWave = 3
  /\ waveSpawnTimer = 0
  /\ currentUnitTypeIndex = Len(WaveUnits[2])
  /\ unitsSpawnedForCurrentType = 0
  /\ isBetweenWaves = TRUE
  /\ betweenWavesTimer = WaveCooldown
  /\ pc = "idle"
  /\ it = 1
  /\ deltaTime = 0
  /\ ticks = MaxTicks - SplashTicks
  /\ spawns = 0
  /\ obs = NoObs
  /\ deadBefore = {}
  /\ visited = <<>>
  /\ waveLog = WavesUpTo(2)
  /\ projectiles = <<>>

SpecSplash == InitSplash /\ [][NextLane]_vars

\* ------------------------------------------ end-of-match situations
\* A third starting point: the last frames of a match.  The countdown is one
\* to three frames from 0, each tower is intact or one Knight hit from
\* falling (3500 - 58 * 60 = 20), and a Knight of either side may stand one
\* step before, or inside, the 60-unit band in front of the opposing tower,
\* in either list order.  Each tower has just fired or is one frame from
\* its next shot.  The wave sequencer is where an undisturbed match has it at
\* that time: in the cooldown that follows the sixth wave.
EndTimers == {k * 100 : k \in 1..EndTicks}

EndTowerHPs == {TOWER_HP - 58 * 60, TOWER_HP}

EndAttackTimers == {0, TOWER_ATTACK_RATE - 100}

EndPlayerUnits ==
  {<<>>} \cup {<<[isPlayer |-> TRUE, x |-> PlayerSpawnX + k * 8000]>> :
                 k \in {117, 118}}

EndEnemyUnits ==
  {<<>>} \cup {<<[isPlayer |-> FALSE, x |-> EnemySpawnX - k * 8000]>> :
                 k \in {117, 118}}

EndLists ==
  {p \o e : p \in EndPlayerUnits, e \in EndEnemyUnits}
  \cup {e \o p : p \in EndPlayerUnits, e \in EndEnemyUnits}

InitEndgame ==
  /\ currentState = "PLAYING"
  /\ \E hp \in EndTowerHPs, at \in EndAttackTimers :
        playerTower = [NewTower(TRUE) EXCEPT !.currentHP = hp,
                                             !.attackTimer = at]
  /\ \E hp \in EndTowerHPs, at \in EndAttackTimers :
        enemyTower = [NewTower(FALSE) EXCEPT !.currentHP = hp,
                                              !.attackTimer = at]
  /\ \E us \in EndLists :
        /\ units = [j \in DOMAIN us |->
                      LaneUnit(j, "KNIGHT", us[j].isPlayer, us[j].x, 300, TRUE)]
        /\ nextId = Len(us) + 1
  /\ playerElixir = MAX_ELIXIR
  /\ enemyElixir = MAX_ELIXIR
  /\ elixirTimer = 0
  /\ gameOver = FALSE
  /\ winner = ""
  /\ freezeAvailable = TRUE
  /\ freezeCooldown = 0
  /\ gameTimer \in EndTimers
  /\ spawnRate = InitialSpawnRates
  /\ currentWave = 7
  /\ waveSpawnTimer = 0
  /\ currentUnitTypeIndex = Len(WaveUnits[6])
  /\ unitsSpawnedForCurrentType = 0
  /\ isBetweenWaves = TRUE
  /\ betweenWavesTimer = WaveCooldown
  /\ pc = "idle"
  /\ it = 1
  /\ deltaTime = 0
  /\ ticks = MaxTicks - EndTicks
  /\ spawns = 0
  /\ obs = NoObs
  /\ deadBefore = {}
  /\ visited = <<>>
  /\ waveLog = WavesUpTo(6)
  /\ projectiles = <<>>

NextEndgame ==
  \/ \E dt \in DeltaTimes : UpdateBegin(dt)
  \/ UnitLoopStep
  \/ UpdateFinish
  \/ UpdateEndMatch

SpecEndgame == InitEndgame /\ [][NextEndgame]_vars

\* the game loop calls Update on every frame
SpecEndgameLive == SpecEndgame /\ WF_vars(NextEndgame)

\* ---------------------------------------------------- the wave sequencer
\* The sequencer on its own: Game::HandleWaveProgression called once a frame
\* from the state Game::Game leaves, with no match clock and no unit pass, so
\* that the later waves and the wrap from wave 8 to wave 1 are explored.  (In
\* a match the 120 s clock stops the sequencer before wave 8 begins.)
InitWaves ==
  /\ currentState = "PLAYING"
  /\ playerTower = NewTower(TRUE)
  /\ enemyTower = NewTower(FALSE)
  /\ units = <<>>
  /\ playerElixir = InitialElixir
  /\ enemyElixir = InitialElixir
  /\ elixirTimer = 0
  /\ gameOver = FALSE
  /\ winner = ""
  /\ freezeAvailable = TRUE
  /\ freezeCooldown = 0
  /\ gameTimer = GAME_TIME_LIMIT
  /\ spawnRate = InitialSpawnRates
  /\ currentWave = 1
  /\ waveSpawnTimer = 0
  /\ currentUnitTypeIndex = 0
  /\ unitsSpawnedForCurrentType = 0
  /\ isBetweenWaves = FALSE
  /\ betweenWavesTimer = 0
  /\ pc = "idle"
  /\ it = 1
  /\ deltaTime = 0
  /\ nextId = 1
  /\ ticks = 0
  /\ spawns = 0
  /\ obs = NoObs
  /\ deadBefore = {}
  /\ visited = <<>>
  /\ waveLog = <<>>
  /\ projectiles = <<>>

\* one call of Game::HandleWaveProgression(deltaTime)
WaveStep(dt) ==
  /\ ticks < WaveSteps
  /\ LET w == HandleWaveProgression(WaveState, dt, gameOver)
     IN /\ units' = IF w.spawn # "none"
                    THEN Append(units, NewUnit(nextId, w.spawn, FALSE))
                    ELSE units
        /\ nextId' = IF w.spawn # "none" THEN nextId + 1 ELSE nextId
        /\ waveLog' = IF w.spawn # "none" THEN Append(waveLog, w.spawn)
                      ELSE waveLog
        /\ spawnRate' = w.spawnRate
        /\ currentWave' = w.currentWave
        /\ waveSpawnTimer' = w.waveSpawnTimer
        /\ currentUnitTypeIndex' = w.currentUnitTypeIndex
        /\ unitsSpawnedForCurrentType' = w.unitsSpawnedForCurrentType
        /\ isBetweenWaves' = w.isBetweenWaves
        /\ betweenWavesTimer' = w.betweenWavesTimer
        /\ obs' = [NoObs EXCEPT !.op = "HandleWaveProgression",
                                !.type = w.spawn]
  /\ deltaTime' = dt
  /\ ticks' = ticks + 1
  /\ UNCHANGED <<currentState, playerTower, enemyTower, playerElixir,
                 enemyElixir, elixirTimer, freezeAvailable, freezeCooldown,
                 gameTimer, gameOver, winner, pc, it, spawns, deadBefore,
                 visited, projectiles>>

NextWaves == \E dt \in DeltaTimes : WaveStep(dt)

SpecWaves == InitWaves /\ [][NextWaves]_vars

\* the game loop calls Update on every frame
SpecWavesLive == SpecWaves /\ WF_vars(NextWaves)

\* --------------------------------------------------- the freeze cooldown
\* The freeze ability on its own: from the state Game::Game leaves, with the
\* match started, the F key on any frame and the cooldown block of
\* Game::Update once a frame, with no match clock and no unit pass, so that
\* a whole cooldown of 30 s and the activation after it are explored.
InitFreeze == InitWaves

\* Game::Update, lines 657-664, on its own
FreezeCooldownStep(dt) ==
  /\ pc = "idle"
  /\ currentState = "PLAYING"
  /\ ticks < FreezeSteps
  /\ LET f == UpdateFreezeCooldown(freezeAvailable, freezeCooldown, dt)
     IN /\ freezeAvailable' = f.freezeAvailable
        /\ freezeCooldown' = f.freezeCooldown
  /\ deltaTime' = dt
  /\ ticks' = ticks + 1
  /\ obs' = [NoObs EXCEPT !.op = "UpdateBegin"]
  /\ UNCHANGED <<currentState, playerTower, enemyTower, units, playerElixir,
                 enemyElixir, elixirTimer, gameTimer, gameOver, winner,
                 spawnRate, currentWave, waveSpawnTimer, currentUnitTypeIndex,
                 unitsSpawnedForCurrentType, isBetweenWaves, betweenWavesTimer,
                 pc, it, nextId, spawns, deadBefore, visited, waveLog,
                 projectiles>>

NextFreeze ==
  \/ ActivateFreeze
  \/ \E dt \in DeltaTimes : FreezeCooldownStep(dt)

SpecFreeze == InitFreeze /\ [][NextFreeze]_vars

\* ------------------------------------------------------- a lone walker
\* One unit of either side on an otherwise empty lane, from its spawn
\* position: the body of the unit loop of Game::Update (Unit::Update, then
\* the lane-end check) once a frame, with no wave sequencer and no tower
\* attacks, so that the unit never has a target and its whole way along the
\* path is explored.  A frame lasts 0.05 s, or 0.2 s when the frame is slow.
InitWalk ==
  /\ currentState = "PLAYING"
  /\ playerTower = NewTower(TRUE)
  /\ enemyTower = NewTower(FALSE)
  /\ \E type \in UnitTypes, isPlayer \in BOOLEAN :
        units = <<NewUnit(1, type, isPlayer)>>
  /\ playerElixir = InitialElixir
  /\ enemyElixir = InitialElixir
  /\ elixirTimer = 0
  /\ gameOver = FALSE
  /\ winner = ""
  /\ freezeAvailable = TRUE
  /\ freezeCooldown = 0
  /\ gameTimer = GAME_TIME_LIMIT
  /\ spawnRate = InitialSpawnRates
  /\ currentWave = 1
  /\ waveSpawnTimer = 0
  /\ currentUnitTypeIndex = 0
  /\ unitsSpawnedForCurrentType = 0
  /\ isBetweenWaves = FALSE
  /\ betweenWavesTimer = 0
  /\ pc = "idle"
  /\ it = 1
  /\ deltaTime = 0
  /\ nextId = 2
  /\ ticks = 0
  /\ spawns = 0
  /\ obs = NoObs
  /\ deadBefore = {}
  /\ visited = <<>>
  /\ waveLog = <<>>
  /\ projectiles = <<>>

\* Game::Update, lines 689-714, for the lone unit
WalkStep(dt) ==
  /\ pc = "idle"
  /\ currentState = "PLAYING"
  /\ ~gameOver
  /\ \E out \in UnitUpdate(units, 1, dt) :
        LET le == LaneEnd(out.units[1], playerTower, enemyTower, gameOver,
                          winner)
        IN /\ units' = out.units
           /\ playerTower' = le.playerTower
           /\ enemyTower' = le.enemyTower
           /\ gameOver' = le.gameOver
           /\ winner' = le.winner
           /\ projectiles' = IF le.hit THEN projectiles \o CreateAttackEffect
                             ELSE projectiles
           /\ obs' = [NoObs EXCEPT !.op = "UnitUpdate", !.unit = units[1].id,
                                   !.moved = out.moved]
  /\ deltaTime' = dt
  /\ UNCHANGED <<currentState, playerElixir, enemyElixir, elixirTimer,
                 freezeAvailable, freezeCooldown, gameTimer, spawnRate,
                 currentWave, waveSpawnTimer, currentUnitTypeIndex,
                 unitsSpawnedForCurrentType, isBetweenWaves, betweenWavesTimer,
                 pc, it, nextId, ticks, spawns, deadBefore, visited, waveLog>>

NextWalk == \E dt \in WalkDeltas : WalkStep(dt)

SpecWalk == InitWalk /\ [][NextWalk]_vars

\* the game loop calls Update on every frame
SpecWalkLive == SpecWalk /\ WF_vars(NextWalk)

\* ------------------------------------------- the sequencer in a match
\* The wave sequencer under the match clock: from the state Game::Game
\* leaves, with the match started, the countdown block and the sequencer
\* call of Game::Update once a frame, with no unit pass and no towers, so
\* that no match ends before its 120 s are over: the longest matches, in
\* which the sequencer gets furthest, and the matches after a restart.
InitMatchWaves == InitWaves

\* Game::Update, lines 666-673 and 732-733
MatchWaveStep(dt) ==
  /\ pc = "idle"
  /\ currentState = "PLAYING"
  /\ ~gameOver
  /\ LET g == UpdateGameTimer(gameTimer, gameOver, winner, dt)
         w == HandleWaveProgression(WaveState, dt, g.gameOver)
     IN /\ gameTimer' = g.gameTimer
        /\ gameOver' = g.gameOver
        /\ winner' = g.winner
        /\ units' = IF w.spawn # "none"
                    THEN Append(units, NewUnit(nextId, w.spawn, FALSE))
                    ELSE units
        /\ nextId' = IF w.spawn # "none" THEN nextId + 1 ELSE nextId
        /\ waveLog' = IF w.spawn # "none" THEN Append(waveLog, w.spawn)
                      ELSE waveLog
        /\ spawnRate' = w.spawnRate
        /\ currentWave' = w.currentWave
        /\ waveSpawnTimer' = w.waveSpawnTimer
        /\ currentUnitTypeIndex' = w.currentUnitTypeIndex
        /\ unitsSpawnedForCurrentType' = w.unitsSpawnedForCurrentType
        /\ isBetweenWaves' = w.isBetweenWaves
        /\ betweenWavesTimer' = w.betweenWavesTimer
        /\ obs' = [NoObs EXCEPT !.op = "HandleWaveProgression",
                                !.type = w.spawn]
  /\ deltaTime' = dt
  /\ UNCHANGED <<currentState, playerTower, enemyTower, playerElixir,
                 enemyElixir, elixirTimer, freezeAvailable, freezeCooldown,
                 pc, it, ticks, spawns, deadBefore, visited, projectiles>>

NextMatchWaves ==
  \/ \E dt \in DeltaTimes : MatchWaveStep(dt)
  \/ UpdateEndMatch
  \/ \E r \in BOOLEAN : UpdateGameOver(r)

SpecMatchWaves == InitMatchWaves /\ [][NextMatchWaves]_vars

\* ------------------------------------------------------------------ claims
\* the cost and the full health of each unit type, as the claims state them
CostOf == [KNIGHT |-> 3, ARCHER |-> 3, GIANT |-> 5, WIZARD |-> 4]
HealthOf == [KNIGHT |-> 300, ARCHER |-> 150, GIANT |-> 1000, WIZARD |-> 180]

C1_Raise ==
  playerElixir' > playerElixir =>
     /\ obs'.op = "UpdateBegin"
     /\ playerElixir' = playerElixir + 1
     /\ elixirTimer + deltaTime' >= ELIXIR_RATE
     /\ playerElixir < MAX_ELIXIR

C1_LoweredBySpawn ==
  /\ obs'.op = "SpawnUnit"
  /\ obs'.ok
  /\ playerElixir >= CostOf[obs'.type]
  /\ playerElixir' = playerElixir - CostOf[obs'.type]

C1_LoweredByReset ==
  /\ obs'.op = "UpdateGameOver"
  /\ obs'.ok
  /\ playerElixir' = InitialElixir

\* C1 as stated: player elixir stays in 0..10, a tick changes it by 0 or +1
\* (+1 only when the accrual timer reached the rate and elixir < 10), and the
\* only operation that ever lowers it is a successful SpawnUnit, by the cost.
C1_OnlySpawnLowers ==
  /\ playerElixir \in 0..MAX_ELIXIR
  /\ [][/\ playerElixir' \in 0..MAX_ELIXIR
        /\ C1_Raise
        /\ playerElixir' < playerElixir => C1_LoweredBySpawn]_vars

\* C1 amended: as above, except that the reset command also lowers the elixir:
\* it sets it back to the initial 5.
C1_Elixir ==
  /\ playerElixir \in 0..MAX_ELIXIR
  /\ [][/\ playerElixir' \in 0..MAX_ELIXIR
        /\ C1_Raise
        /\ playerElixir' < playerElixir
             => (C1_LoweredBySpawn \/ C1_LoweredByReset)]_vars

\* a spawn was paid out of a full elixir bar: the cap was reached by ticks
\* and the deduction started from it
C1_Witness ==
  /\ obs.op = "SpawnUnit"
  /\ obs.ok
  /\ playerElixir = MAX_ELIXIR - CostOf[obs.type]

\* C2: a SpawnUnit issued while Playing with elixir >= cost lowers the elixir
\* by the cost and appends exactly one unit: player side, alive, not frozen,
\* no target, full health of its type, at the player spawn position; towers,
\* other units, timers and wave state are unchanged.
C2_SpawnEffect ==
  [][(obs'.op = "SpawnUnit" /\ currentState = "PLAYING"
        /\ playerElixir >= CostOf[obs'.type])
     => /\ playerElixir' = playerElixir - CostOf[obs'.type]
        /\ Len(units') = Len(units) + 1
        /\ SubSeq(units', 1, Len(units)) = units
        /\ LET u == units'[Len(units')]
           IN /\ u.type = obs'.type
              /\ u.isPlayer
              /\ u.isAlive
              /\ ~u.isFrozen
              /\ u.target = NULL
              /\ u.currentHP = HealthOf[u.type]
              /\ u.maxHP = HealthOf[u.type]
              /\ u.position = PlayerSpawnX
              /\ ~Member(units, u.id)
        /\ UNCHANGED <<currentState, playerTower, enemyTower, enemyElixir,
                       elixirTimer, freezeAvailable, freezeCooldown, gameTimer,
                       gameOver, winner, spawnRate, currentWave,
                       waveSpawnTimer, currentUnitTypeIndex,
                       unitsSpawnedForCurrentType, isBetweenWaves,
                       betweenWavesTimer>>]_vars

\* the scenario of the specification: a Knight bought with 5 elixir
C2_Witness ==
  /\ obs.op = "SpawnUnit"
  /\ obs.ok
  /\ obs.type = "KNIGHT"
  /\ playerElixir = 2
  /\ units[Len(units)].id = obs.unit
  /\ units[Len(units)].currentHP = 300

\* C3: a SpawnUnit issued while the phase is not Playing, or with elixir below
\* the cost, changes nothing and signals no error.
C3_SpawnRejected ==
  [][(obs'.op = "SpawnUnit"
        /\ (currentState # "PLAYING" \/ playerElixir < CostOf[obs'.type]))
     => /\ UNCHANGED simVars
        /\ pc' = pc
        /\ pc' # "crashed"
        /\ ~obs'.ok]_vars

\* a rejected spawn for lack of elixir during a match, with units on the lane
C3_Witness ==
  /\ obs.op = "SpawnUnit"
  /\ ~obs.ok
  /\ currentState = "PLAYING"
  /\ playerElixir < CostOf[obs.type]
  /\ units # <<>>

\* the unit of the list us that has the identity id
UnitOf(us, id) == us[IndexOf(us, id)]

\* a unit that is dead in this state and still listed in the next is dead there
NeverRevives ==
  \A j \in DOMAIN units :
     (~units[j].isAlive /\ Member(units', units[j].id))
        => ~UnitOf(units', units[j].id).isAlive

\* C4: at every tick boundary every listed unit has alive <=> currentHealth > 0,
\* whatever reduced its health (primary attack, Wizard splash, tower attack),
\* and a unit whose alive flag became false never becomes alive again.
C4_AliveIffHealth ==
  /\ [](pc = "idle" => \A j \in DOMAIN units :
                          units[j].isAlive <=> units[j].currentHP > 0)
  /\ [][NeverRevives]_vars

\* C5: at every tick boundary every listed unit has 0 <= currentHealth <=
\* maxHealth: a lethal hit leaves the stored health clamped at 0.
C5_HealthBounds ==
  pc = "idle" => \A j \in DOMAIN units :
                    /\ 0 <= units[j].currentHP
                    /\ units[j].currentHP <= units[j].maxHP

\* the step is a unit's Attack that left its primary target at health <= 0
C6_LethalAttack ==
  /\ obs'.op = "UnitUpdate"
  /\ obs'.attacked # NULL
  /\ UnitOf(units', obs'.attacked).currentHP <= 0

\* a dead listed unit keeps its position, timers and target
C6_DeadIsInert ==
  \A j \in DOMAIN units :
     (~units[j].isAlive /\ Member(units', units[j].id))
        => LET v == UnitOf(units', units[j].id)
           IN /\ v.position = units[j].position
              /\ v.attackTimer = units[j].attackTimer
              /\ v.freezeTimer = units[j].freezeTimer
              /\ v.target = units[j].target
              /\ v.path = units[j].path

\* C6: an Attack that brings its primary target's health to <= 0 (exactly 0
\* included) marks the target dead in that step and clears the attacker's
\* target; from then on the dead unit's position, timers and target never
\* change, it is never updated (so never attacks) nor visited by the lane-end
\* check, and it has left the list by the end of the next tick's unit pass;
\* the pass visits every living unit exactly once, removals notwithstanding.
C6_KillAndPrune ==
  /\ [](pc = "attacks" =>
          /\ \A j \in DOMAIN units : units[j].id \notin deadBefore
          /\ \A k, l \in DOMAIN visited : visited[k] = visited[l] => k = l
          /\ \A j \in DOMAIN units :
                units[j].isAlive => \E k \in DOMAIN visited :
                                       visited[k] = units[j].id)
  /\ [][/\ C6_LethalAttack =>
              /\ ~UnitOf(units', obs'.attacked).isAlive
              /\ units'[it].target = NULL
        /\ C6_DeadIsInert
        /\ NeverRevives
        /\ obs'.op = "UnitUpdate" =>
              /\ units[it].isAlive
              /\ visited' = IF obs'.ok THEN Append(visited, units[it].id)
                            ELSE visited
        /\ obs'.op = "UnitErase" =>
              /\ ~units[it].isAlive
              /\ visited' = visited
              /\ units' = RemoveAt(units, it)]_vars

\* the pass erases, from the middle of the list, a unit that an Attack had
\* left at exactly 0, and goes on with the living unit that followed it
C6_Witness ==
  /\ pc = "units"
  /\ obs.op = "UnitErase"
  /\ obs.hp = 0
  /\ obs.unit \in deadBefore
  /\ visited # <<>>
  /\ units[it].isAlive

\* C7: whenever a unit's update inspects its target reference, the reference
\* is null or designates a unit still in the list; a target reference never
\* outlives the removal of the unit it designates.
C7_TargetValid ==
  /\ ~obs.dangling
  /\ \A j \in DOMAIN units :
        units[j].isAlive =>
           (units[j].target = NULL \/ Member(units, units[j].target))

\* C8: the unit that receives a tower's damage is, at that moment, alive and
\* a member of the list; a unit killed or removed earlier in the tick is
\* never the recipient.
C8_TowerShotValid ==
  \A sh \in obs.shots : sh.member /\ sh.alive

\* the living opposing units within 1.5 x the attack range of units[i]
C9_Candidates(i) ==
  {j \in DOMAIN units :
     /\ units[j].isAlive
     /\ units[j].isPlayer # units[i].isPlayer
     /\ 2 * Abs(units[i].position - units[j].position)
           <= 3 * units[i].attackRange}

C9_Dist(i, j) == Abs(units[i].position - units[j].position)

C9_Nearest(i, n) ==
  \A c \in C9_Candidates(i) : C9_Dist(i, n) <= C9_Dist(i, c)

\* t is a choice the claim allows to units[i]
C9_Allowed(i, t) ==
  \/ /\ C9_Nearest(i, t)
     /\ ~\E l \in C9_Candidates(i) :
            /\ Abs(C9_Dist(i, l) - C9_Dist(i, t)) < 10000
            /\ units[l].currentHP < units[t].currentHP
  \/ \E n \in C9_Candidates(i) :
        /\ C9_Nearest(i, n)
        /\ Abs(C9_Dist(i, t) - C9_Dist(i, n)) < 10000
        /\ units[t].currentHP < units[n].currentHP

\* the step is an Update of units[it] that ran target acquisition
C9_Acquires ==
  /\ obs'.op = "UnitUpdate"
  /\ obs'.ok
  /\ ~units[it].isFrozen
  /\ \/ units[it].target = NULL
     \/ ~Member(units, units[it].target)
     \/ ~UnitOf(units, units[it].target).isAlive

\* C9: the target T a unit acquires is a nearest candidate, unless a candidate
\* whose distance differs by less than 10 has strictly lower health, and then
\* that candidate is the one chosen; with no candidate the target is none.
C9_TargetChoice ==
  [][C9_Acquires =>
       LET T == IF obs'.killed THEN obs'.attacked ELSE units'[it].target
       IN IF C9_Candidates(it) = {} THEN T = NULL
          ELSE \E t \in C9_Candidates(it) :
                  units[t].id = T /\ C9_Allowed(it, t)]_vars

\* the pool the claim describes for tower tw, with the range test InRange
C10_Pool(tw, InRange(_)) ==
  {units[j].id :
     j \in {k \in DOMAIN units :
              /\ units[k].isAlive
              /\ units[k].isPlayer # tw.isPlayer
              /\ InRange(Abs(tw.position - units[k].position))}}

C11_FreezeEffect ==
  [][(obs'.op = "ActivateFreeze" /\ currentState = "PLAYING" /\ freezeAvailable)
     => /\ Len(units') = Len(units)
        /\ \A j \in DOMAIN units :
              /\ units'[j].id = units[j].id
              /\ (~units[j].isPlayer /\ units[j].isAlive)
                    => /\ units'[j].isFrozen
                       /\ units'[j].freezeTimer = 5000
              /\ units[j].isPlayer
                    => /\ units'[j].isFrozen = units[j].isFrozen
                       /\ units'[j].freezeTimer = units[j].freezeTimer
                       /\ units'[j].position = units[j].position
                       /\ units'[j].currentHP = units[j].currentHP
        /\ ~freezeAvailable'
        /\ freezeCooldown' = 30000]_vars

\* a freeze that caught a living enemy unit while a living player unit was
\* on the lane
C11_Witness ==
  /\ obs.op = "ActivateFreeze"
  /\ obs.ok
  /\ ~freezeAvailable
  /\ \E j, k \in DOMAIN units :
        /\ ~units[j].isPlayer /\ units[j].isAlive /\ units[j].isFrozen
        /\ units[j].freezeTimer = 5000
        /\ units[k].isPlayer /\ units[k].isAlive /\ ~units[k].isFrozen

\* C12: in every tick a unit starts frozen, the thawing tick included, its
\* update leaves its position, path, attack timer and target unchanged and
\* performs no attack; only the freeze timer and the frozen flag change.
C12_FrozenUpdate ==
  [][(obs'.op = "UnitUpdate" /\ units[it].isFrozen)
     => /\ obs'.ok
        /\ obs'.attacked = NULL
        /\ units' = [units EXCEPT
                       ![it].freezeTimer = units[it].freezeTimer - deltaTime,
                       ![it].isFrozen = units[it].freezeTimer - deltaTime > 0]]_vars

\* the update in which a frozen unit with a target thawed
C12_Witness ==
  /\ obs.op = "UnitUpdate"
  /\ obs.frozen
  /\ ~UnitOf(units, obs.unit).isFrozen
  /\ UnitOf(units, obs.unit).freezeTimer <= 0
  /\ UnitOf(units, obs.unit).target # NULL

\* C13: while an enemy unit is frozen it performs no action at all; a frozen
\* enemy unit within 60 of the player tower deals no lane-end damage to it.
C13_FrozenHarmless ==
  [][(obs'.op = "UnitUpdate" /\ units[it].isFrozen /\ ~units[it].isPlayer)
     => /\ playerTower' = playerTower
        /\ gameOver' = gameOver
        /\ winner' = winner]_vars

\* C14: ActivateFreeze issued while freeze is unavailable or while the phase
\* is not Playing changes nothing: no frozen flag or freeze timer is set or
\* refreshed and the cooldown is not restarted.
C14_FreezeRejected ==
  [][(obs'.op = "ActivateFreeze"
        /\ (currentState # "PLAYING" \/ ~freezeAvailable))
     => /\ UNCHANGED simVars
        /\ pc' = pc
        /\ ~obs'.ok]_vars

\* a rejected freeze during the cooldown, with an enemy unit part-way through
\* its freeze
C14_Witness ==
  /\ obs.op = "ActivateFreeze"
  /\ ~obs.ok
  /\ currentState = "PLAYING"
  /\ freezeCooldown > 0
  /\ freezeCooldown < 30000
  /\ \E j \in DOMAIN units :
        /\ units[j].isFrozen
        /\ units[j].freezeTimer > 0
        /\ units[j].freezeTimer < 5000

\* C15: when the countdown reaches <= 0 in a Playing tick that began with
\* both towers alive and no outcome set, the countdown is clamped to 0, the
\* outcome is Draw and the phase becomes Over; no later step of that tick
\* replaces Draw by another outcome.
C15_DrawStands ==
  [][/\ (/\ obs'.op = "UpdateBegin"
         /\ gameTimer - deltaTime' <= 0
         /\ playerTower.isAlive /\ enemyTower.isAlive /\ winner = "")
        => (gameTimer' = 0 /\ gameOver' /\ winner' = "Draw")
     /\ (winner = "Draw" /\ pc \in {"units", "attacks"}) => winner' = "Draw"
     /\ (winner = "Draw" /\ obs'.op = "UpdateEndMatch")
        => (currentState' = "GAME_OVER" /\ winner' = "Draw")]_vars

\* C16: if both towers reach health <= 0 within the same tick, the outcome
\* recorded is the one set by the first tower to fall in that tick's unit
\* pass; a later lethal hit on the other tower does not change it.
C16_FirstFallDecides ==
  [][(pc = "units" /\ winner \in {"Player Wins!", "Enemy Wins!"})
        => winner' = winner]_vars

\* the units wave w defines
WaveTotal(w) == UnitsInEntries(w, Len(WaveUnits[w]))

\* the unit types one pass over the wave chain spawns
WaveCycle == WavesUpTo(NumWaves)

\* the completed entries of the current wave: the entry index, which stays at
\* its last value during the cooldown, counted within the wave
C17_Completed ==
  IF currentUnitTypeIndex < Len(WaveUnits[currentWave])
  THEN currentUnitTypeIndex ELSE Len(WaveUnits[currentWave])

C17_SpawnedOfWave ==
  UnitsInEntries(currentWave, C17_Completed) + unitsSpawnedForCurrentType

\* C17: in every state of the wave sequencer the units spawned from the
\* current wave (the counts of its completed entries plus the spawned count of
\* the current entry) are at most the units the wave defines; while the entry
\* index is within the wave the spawned count is below that entry's count;
\* and the enemy types spawned so far are a prefix of the waves' entries in
\* order, each repeated count times (while a wave is spawning, exactly the
\* earlier waves and the units counted for the current one).
C17_WaveSequencer ==
  /\ C17_SpawnedOfWave <= WaveTotal(currentWave)
  /\ currentUnitTypeIndex < Len(WaveUnits[currentWave])
       => unitsSpawnedForCurrentType
            < WaveUnits[currentWave][currentUnitTypeIndex + 1][2]
  /\ \A i \in DOMAIN waveLog :
        waveLog[i] = WaveCycle[((i - 1) % Len(WaveCycle)) + 1]
  /\ ~isBetweenWaves
       => (Len(waveLog) - Len(WavesUpTo(currentWave - 1)) - C17_SpawnedOfWave)
             % Len(WaveCycle) = 0

\* the second pass over the chain is inside the second entry of wave 5, the
\* first entry spawned in full
C17_Witness ==
  /\ Len(waveLog) > Len(WaveCycle)
  /\ currentWave = 5
  /\ ~isBetweenWaves
  /\ currentUnitTypeIndex = 1
  /\ unitsSpawnedForCurrentType = 0
  /\ waveSpawnTimer > 0

\* the step on which the chain wraps from the last wave to wave 1
C18_Wraps == currentWave = NumWaves /\ currentWave' = 1

\* max(2.0, previous x 0.9), in whole milliseconds
C18_Decayed(rate) ==
  LET d == (rate * 9) \div 10 IN IF d < 2000 THEN 2000 ELSE d

\* C18: on each wrap from wave 8 to wave 1 every wave's spawn interval
\* becomes max(2.0, previous x 0.9), once, and no other step changes an
\* interval; the intervals never increase, are never below 2.0, and after
\* finitely many wraps all are 2.0 and stay there.
C18_Decay ==
  /\ [](\A k \in DOMAIN spawnRate : spawnRate[k] >= 2000)
  /\ [][/\ \A k \in DOMAIN spawnRate : spawnRate'[k] <= spawnRate[k]
        /\ C18_Wraps
             => \A k \in DOMAIN spawnRate :
                   spawnRate'[k] = C18_Decayed(spawnRate[k])
        /\ ~C18_Wraps => spawnRate' = spawnRate]_vars
  /\ <>[](\A k \in DOMAIN spawnRate : spawnRate[k] = 2000)

\* the cooldown after the third wrap: the two fastest waves have reached the
\* floor, the others have decayed three times
C18_Witness ==
  /\ spawnRate = <<2916, 2551, 2551, 2551, 2187, 2187, 2000, 2000>>
  /\ currentWave = 1
  /\ isBetweenWaves
  /\ betweenWavesTimer = WaveCooldown
  /\ Len(waveLog) = 3 * Len(WaveCycle)

\* C19: a reset honoured on the game-over screen leaves the initial playing
\* state: no units and no effects, both towers alive at 3500 with attack
\* timer 0 and an empty pool, both elixirs 5, elixir timer 0, countdown 120,
\* freeze available with cooldown 0, no outcome, wave 1 at entry 0 with
\* nothing spawned, spawn timer 0, not between waves, the waves' initial
\* spawn intervals, phase Playing.
C19_ResetState ==
  [][(currentState = "GAME_OVER" /\ currentState' # "GAME_OVER")
     => /\ obs'.op = "UpdateGameOver" /\ obs'.ok
        /\ currentState' = "PLAYING"
        /\ units' = <<>>
        /\ projectiles' = <<>>
        /\ \A tw \in {playerTower', enemyTower'} :
              /\ tw.isAlive
              /\ tw.currentHP = 3500
              /\ tw.maxHP = 3500
              /\ tw.attackTimer = 0
              /\ tw.targetQueue = {}
        /\ playerTower'.isPlayer /\ ~enemyTower'.isPlayer
        /\ playerElixir' = 5
        /\ enemyElixir' = 5
        /\ elixirTimer' = 0
        /\ gameTimer' = 120000
        /\ freezeAvailable'
        /\ freezeCooldown' = 0
        /\ ~gameOver'
        /\ winner' = ""
        /\ currentWave' = 1
        /\ currentUnitTypeIndex' = 0
        /\ unitsSpawnedForCurrentType' = 0
        /\ waveSpawnTimer' = 0
        /\ ~isBetweenWaves'
        /\ spawnRate' = <<4000, 3500, 3500, 3500, 3000, 3000, 2500, 2500>>]_vars

\* a reset has just cleared a lost match that still had units on the field
C19_Witness ==
  /\ obs.op = "UpdateGameOver"
  /\ obs.ok
  /\ obs.type = "Enemy Wins!"
  /\ obs.hp >= 3
  /\ currentState = "PLAYING"
  /\ units = <<>>
  /\ winner = ""
  /\ gameTimer = GAME_TIME_LIMIT

\* the step on which a between-wave cooldown runs out
C20_CooldownEnds == isBetweenWaves /\ ~isBetweenWaves'

\* C20: within a match the current-wave pointer changes, and a spawn
\* interval changes, only on the step on which the between-wave cooldown
\* reaches <= 0; throughout the cooldown that follows wave N the current wave
\* is still wave N, the wave whose last unit ends the log of spawned types.
C20_AdvanceAtCooldownEnd ==
  /\ [][(currentWave' # currentWave /\ obs'.op # "UpdateGameOver")
          => C20_CooldownEnds]_vars
  /\ [][spawnRate' # spawnRate => C20_CooldownEnds]_vars
  /\ [](isBetweenWaves
          => Len(waveLog) % Len(WaveCycle)
               = Len(WavesUpTo(currentWave)) % Len(WaveCycle))

\* every simulation variable but the phase
C21_Rest == <<playerTower, enemyTower, units, playerElixir, enemyElixir,
              elixirTimer, freezeAvailable, freezeCooldown, gameTimer,
              gameOver, winner, spawnRate, currentWave, waveSpawnTimer,
              currentUnitTypeIndex, unitsSpawnedForCurrentType,
              isBetweenWaves, betweenWavesTimer, projectiles>>

\* C21: the phase only moves START_SCREEN -> PLAYING on a frame with Enter,
\* PLAYING -> GAME_OVER on a frame that begins with the outcome set (and every
\* frame that begins so in PLAYING makes that move), and GAME_OVER -> PLAYING
\* on a frame with R.  A frame on the start or game-over screen without its
\* key, and the frame that moves PLAYING to GAME_OVER, leave every other
\* simulation variable as it was.
C21_PhaseProtocol ==
  [][/\ currentState' # currentState
          => \/ /\ currentState = "START_SCREEN" /\ currentState' = "PLAYING"
                /\ obs'.op = "UpdateStartScreen" /\ obs'.ok
             \/ /\ currentState = "PLAYING" /\ currentState' = "GAME_OVER"
                /\ obs'.op = "UpdateEndMatch" /\ gameOver /\ pc = "idle"
             \/ /\ currentState = "GAME_OVER" /\ currentState' = "PLAYING"
                /\ obs'.op = "UpdateGameOver" /\ obs'.ok
     /\ obs'.op = "UpdateBegin" => ~gameOver /\ currentState = "PLAYING"
     /\ (obs'.op \in {"UpdateStartScreen", "UpdateGameOver"} /\ ~obs'.ok)
          => UNCHANGED simVars
     /\ obs'.op = "UpdateEndMatch" => UNCHANGED C21_Rest]_vars

\* the frame after a lost match has just moved the phase to GAME_OVER, with
\* units still on the field and time left on the countdown
C21_Witness ==
  /\ obs.op = "UpdateEndMatch"
  /\ currentState = "GAME_OVER"
  /\ winner = "Enemy Wins!"
  /\ units # <<>>
  /\ gameTimer > 0
  /\ ~playerTower.isAlive

\* C22: at every tick boundary each tower has 0 <= health <= 3500 and is
\* alive exactly when its health is positive, and the outcome agrees with the
\* towers: "Player Wins!" only with the enemy tower fallen, "Enemy Wins!" only
\* with the player tower fallen, "Draw" only with the countdown at 0, and a
\* fallen tower only with one of the two wins as the outcome.
C22_TowersAndOutcome ==
  pc = "idle"
    => /\ \A tw \in {playerTower, enemyTower} :
             /\ 0 <= tw.currentHP /\ tw.currentHP <= 3500
             /\ tw.isAlive <=> tw.currentHP > 0
       /\ winner = "Player Wins!" => ~enemyTower.isAlive
       /\ winner = "Enemy Wins!" => ~playerTower.isAlive
       /\ winner = "Draw" => gameTimer = 0
       /\ (~playerTower.isAlive \/ ~enemyTower.isAlive)
            => winner \in {"Player Wins!", "Enemy Wins!"}
       /\ winner \in {"", "Player Wins!", "Enemy Wins!", "Draw"}
       /\ gameOver <=> winner # ""

\* the tick boundary after the frame in which the countdown ran out and the
\* player tower fell
C22_Witness ==
  /\ pc = "idle"
  /\ gameTimer = 0
  /\ ~playerTower.isAlive
  /\ playerTower.currentHP = 0
  /\ enemyTower.isAlive
  /\ winner = "Enemy Wins!"

\* C23: a tower that is not alive deals no damage, from the moment it falls
\* (the rest of that frame included): no shot of HandleTowerAttacks is fired
\* by a fallen tower, and a fallen tower's pool and attack timer stay as they
\* were when it fell.
C23_FallenTowerIdle ==
  /\ [][obs'.op = "UpdateFinish"
          => \A sh \in obs'.shots :
                IF sh.byPlayer THEN playerTower.isAlive
                ELSE enemyTower.isAlive]_vars
  /\ [][/\ (~playerTower.isAlive /\ ~playerTower'.isAlive)
             => /\ playerTower'.attackTimer = playerTower.attackTimer
                /\ playerTower'.targetQueue = playerTower.targetQueue
        /\ (~enemyTower.isAlive /\ ~enemyTower'.isAlive)
             => /\ enemyTower'.attackTimer = enemyTower.attackTimer
                /\ enemyTower'.targetQueue = enemyTower.targetQueue]_vars

\* health h after one lane-end hit of damage d
C24_Hit(h, d) == IF h - d <= 0 THEN 0 ELSE h - d

\* the unit whose update the step has just run, as the update left it
C24_Updated == units'[it]

\* C24: within a match a tower's health changes only on the unit-loop step of
\* a living unit, by that unit's lane-end damage: after its update a player
\* unit with x >= enemy tower x - 60 lowers the enemy tower's health by its
\* damage, clamped at 0, an enemy unit with x <= player tower x + 60 does the
\* same to the player tower, and any other unit leaves both towers' health
\* alone; every unit in the list is updated at most once per frame, so the
\* damage is dealt once per unit per frame, and again on each later frame the
\* unit is in the band.  No attack, splash or tower shot changes a tower's
\* health.
C24_LaneEndDamage ==
  /\ [][obs'.op # "UpdateGameOver"
          => /\ (\/ playerTower'.currentHP # playerTower.currentHP
                 \/ enemyTower'.currentHP # enemyTower.currentHP)
                  => obs'.op = "UnitUpdate" /\ obs'.ok
             /\ (obs'.op = "UnitUpdate" /\ obs'.ok)
                  => /\ units[it].isAlive
                     /\ enemyTower'.currentHP =
                          IF /\ C24_Updated.isPlayer
                             /\ C24_Updated.position
                                  >= enemyTower.position - 60000
                          THEN C24_Hit(enemyTower.currentHP, C24_Updated.damage)
                          ELSE enemyTower.currentHP
                     /\ playerTower'.currentHP =
                          IF /\ ~C24_Updated.isPlayer
                             /\ C24_Updated.position
                                  <= playerTower.position + 60000
                          THEN C24_Hit(playerTower.currentHP, C24_Updated.damage)
                          ELSE playerTower.currentHP]_vars
  /\ [](\A j, k \in DOMAIN visited : visited[j] = visited[k] => j = k)
  /\ [](pc = "attacks"
          => {units[j].id : j \in DOMAIN units}
               = {visited[j] : j \in DOMAIN visited})

\* an enemy unit standing in the band has just hit the player tower again:
\* the tower has lost more than this unit's damage
C24_Witness ==
  /\ obs.op = "UnitUpdate"
  /\ obs.ok
  /\ pc \in {"units", "attacks"}
  /\ it > 1
  /\ units[it - 1].id = obs.unit
  /\ ~units[it - 1].isPlayer
  /\ units[it - 1].position <= playerTower.position + 60000
  /\ playerTower.currentHP < 3500 - 2 * units[it - 1].damage
  /\ playerTower.currentHP > 0

\* the target of the unit under update designates a unit that is in the list
\* and alive
C25_TargetLives ==
  /\ units[it].target # NULL
  /\ Member(units, units[it].target)
  /\ UnitOf(units, units[it].target).isAlive

\* C25: a unit's update changes no other unit's target, and changes its own
\* only when, at the start of the update, the target was null or designated
\* a dead (or already erased) unit, or when the unit killed its target in
\* this update, which clears it; a living target is never displaced.  Each
\* frame gives a living tower the pool and the best candidate a newly built
\* tower would get from the list, whatever it held before.
C25_StickyTargets ==
  /\ [][(obs'.op = "UnitUpdate" /\ obs'.ok)
          => /\ \A j \in DOMAIN units :
                   j # it => units'[j].target = units[j].target
             /\ units'[it].target # units[it].target
                  => \/ ~C25_TargetLives
                     \/ /\ obs'.attacked = units[it].target
                        /\ obs'.killed
                        /\ units'[it].target = NULL]_vars
  /\ [][obs'.op = "UpdateBegin"
          => /\ playerTower.isAlive
                  => /\ playerTower'.top \in TopChoices(NewTower(TRUE), units)
                     /\ playerTower'.targetQueue
                          = {units[c.idx].id :
                               c \in TargetPool(NewTower(TRUE), units)}
             /\ enemyTower.isAlive
                  => /\ enemyTower'.top \in TopChoices(NewTower(FALSE), units)
                     /\ enemyTower'.targetQueue
                          = {units[c.idx].id :
                               c \in TargetPool(NewTower(FALSE), units)}]_vars

\* a unit has just kept the living target it held before its update although
\* a living opposing unit within its search radius is nearer by more than the
\* 10-unit band
C25_Witness ==
  /\ obs.op = "UnitUpdate"
  /\ obs.ok
  /\ ~obs.frozen
  /\ obs.prev # NULL
  /\ obs.prev = units[it - 1].target
  /\ it > 1
  /\ it - 1 \in DOMAIN units
  /\ units[it - 1].id = obs.unit
  /\ units[it - 1].target # NULL
  /\ Member(units, units[it - 1].target)
  /\ UnitOf(units, units[it - 1].target).isAlive
  /\ \E c \in PotentialTargets(units, it - 1) :
        c.distance + PriorityBand
          <= CalculateDistance(units[it - 1].position,
                               UnitOf(units, units[it - 1].target).position)

\* the target the update under way has settled on: the one it attacked, or
\* the one the unit holds after it
C26_Settled ==
  IF obs'.attacked # NULL THEN obs'.attacked ELSE units'[it].target

C26_NoHealthChange ==
  \A j \in DOMAIN units : units'[j].currentHP = units[j].currentHP

\* C26: the update of a non-frozen unit that has a living target.  Within
\* attack range the unit keeps its position and path; its attack timer grows
\* by the frame time and, when that reaches the attack interval, the unit
\* performs one Attack on the target and the timer is 0; below the interval
\* nobody is hurt.  Out of range the unit takes one path-following step, hurts
\* nobody and its attack timer is 0.  The timer of a unit changes in no other
\* way while it has a target, so two attacks of a unit are at least one attack
\* interval of in-range frames apart.
C26_AttackOrAdvance ==
  [][(/\ obs'.op = "UnitUpdate" /\ obs'.ok
      /\ ~units[it].isFrozen
      /\ C26_Settled # NULL
      /\ Member(units, C26_Settled)
      /\ UnitOf(units, C26_Settled).isAlive)
     => LET u == units[it]
            v == units'[it]
            t == UnitOf(units, C26_Settled)
        IN IF Abs(u.position - t.position) <= u.attackRange
           THEN /\ v.position = u.position
                /\ v.path = u.path
                /\ v.currentTargetPos = u.currentTargetPos
                /\ IF u.attackTimer + deltaTime >= u.attackRate
                   THEN /\ obs'.attacked = t.id
                        /\ v.attackTimer = 0
                        /\ UnitOf(units', t.id).currentHP
                             = t.currentHP - u.damage
                   ELSE /\ obs'.attacked = NULL
                        /\ v.attackTimer = u.attackTimer + deltaTime
                        /\ C26_NoHealthChange
           ELSE /\ obs'.attacked = NULL
                /\ v = [FollowPath([u EXCEPT !.target = t.id], deltaTime)
                          EXCEPT !.attackTimer = 0]
                /\ C26_NoHealthChange]_vars

\* a unit has just attacked a target in range and left it alive: its timer
\* is back at 0 and it has not moved
C26_Witness ==
  /\ obs.op = "UnitUpdate"
  /\ obs.ok
  /\ obs.attacked # NULL
  /\ ~obs.killed
  /\ ~obs.moved
  /\ it > 1
  /\ units[it - 1].id = obs.unit
  /\ units[it - 1].attackTimer = 0
  /\ units[it - 1].target = obs.attacked
  /\ UnitOf(units, obs.attacked).currentHP
       = HealthOf[UnitOf(units, obs.attacked).type] - 2 * units[it - 1].damage

\* the health of unit w after one Attack by a on the primary target t, with
\* the splash reaching the units whose distance from t is in the set near
C27_After(a, t, w, near) ==
  IF w.id = t.id THEN w.currentHP - a.damage
  ELSE IF /\ a.type = "WIZARD"
          /\ w.isAlive
          /\ w.isPlayer # a.isPlayer
          /\ Abs(w.position - t.position) \in near
  THEN w.currentHP - (a.damage \div 2)
  ELSE w.currentHP

\* the Attack the step has performed changes every unit's health as
\* C27_After says
C27_Effect(near) ==
  (obs'.op = "UnitUpdate" /\ obs'.ok /\ obs'.attacked # NULL)
    => /\ UnitOf(units, obs'.attacked).isAlive
       /\ \A j \in DOMAIN units :
             units'[j].currentHP
               = C27_After(units[it], UnitOf(units, obs'.attacked), units[j],
                           near)

\* C27 as stated: one Attack on a living target lowers the target's health
\* by the attacker's damage, once; a Wizard also lowers by half its damage
\* (integer division) every other living opposing unit within the 60-unit
\* radius of the target, the radius itself included, and nobody else; any
\* other attacker changes no other unit.
C27_AttackEffectInclusive == [][C27_Effect(0..60000)]_vars

\* C27 amended: as above, with the splash reaching the units at a distance
\* strictly below 60 from the target.
C27_AttackEffect == [][C27_Effect(0..59999)]_vars

\* the Wizard has just hit the Knight for 70 and the Giant, 52 away from the
\* Knight, for 35, with the Archer at exactly 60 in the list
C27_Witness ==
  /\ obs.op = "UnitUpdate"
  /\ obs.ok
  /\ obs.unit = 1
  /\ obs.attacked = 2
  /\ units[1].type = "WIZARD"
  /\ units[2].currentHP = 300 - 70
  /\ \E j \in DOMAIN units :
        /\ units[j].type = "GIANT"
        /\ units[j].currentHP = 1000 - 35
        /\ Abs(units[j].position - units[2].position) = 52000
  /\ \E j \in DOMAIN units :
        /\ units[j].type = "ARCHER"
        /\ Abs(units[j].position - units[2].position) = 60000

\* the number of the shots fired in the step that are aimed at the unit id
C28_ShotsAt(id) == Cardinality({sh \in obs'.shots : sh.id = id})

\* tower tw, as it enters the attack phase, and tw2, as it leaves it
C28_Tower(tw, tw2) ==
  LET fires == tw.attackTimer >= TOWER_ATTACK_RATE /\ tw.targetQueue # {}
      mine  == {sh \in obs'.shots : sh.byPlayer = tw.isPlayer}
  IN /\ Cardinality(mine) <= 1
     /\ (mine # {}) <=> fires
     /\ fires => /\ tw2.attackTimer = 0
                 /\ \A sh \in mine : sh.id = tw.top /\ Member(units, sh.id)
     /\ ~fires => tw2.attackTimer = tw.attackTimer

\* between two attack phases a tower's timer only grows, by the frame's
\* elapsed time, unless the towers are rebuilt for a new match
C28_Timer(tw, tw2) ==
  \/ tw2.attackTimer = tw.attackTimer
  \/ obs'.op = "UpdateBegin" /\ tw2.attackTimer = tw.attackTimer + deltaTime'
  \/ obs'.op = "UpdateGameOver" /\ tw2.attackTimer = 0

C28_Step ==
  IF pc = "attacks"
  THEN /\ obs'.ok
       /\ C28_Tower(playerTower, playerTower')
       /\ C28_Tower(enemyTower, enemyTower')
       /\ \A j \in DOMAIN units :
             units'[j].currentHP
               = units[j].currentHP - TOWER_DAMAGE * C28_ShotsAt(units[j].id)
  ELSE /\ C28_Timer(playerTower, playerTower')
       /\ C28_Timer(enemyTower, enemyTower')

C29_Range ==
  /\ 0 <= freezeCooldown
  /\ freezeCooldown <= FREEZE_COOLDOWN
  /\ freezeAvailable <=> freezeCooldown = 0

\* what a step may do to the freeze ability: a successful activation needs
\* it available and starts a cooldown of 30; an unavailable ability loses
\* the elapsed time of each Playing tick, and of nothing else, from its
\* cooldown, and becomes available in the tick that uses the cooldown up,
\* or with the next match
C29_Step ==
  /\ (obs'.op = "ActivateFreeze" /\ obs'.ok)
        => /\ freezeAvailable
           /\ ~freezeAvailable'
           /\ freezeCooldown' = FREEZE_COOLDOWN
  /\ (~freezeAvailable /\ obs'.op = "UpdateBegin")
        => /\ freezeAvailable' <=> (freezeCooldown <= deltaTime')
           /\ freezeCooldown' =
                 IF freezeCooldown <= deltaTime' THEN 0
                 ELSE freezeCooldown - deltaTime'
  /\ (~freezeAvailable /\ obs'.op \notin {"UpdateBegin", "UpdateGameOver"})
        => /\ ~freezeAvailable'
           /\ freezeCooldown' = freezeCooldown
  /\ (freezeAvailable /\ ~(obs'.op = "ActivateFreeze" /\ obs'.ok))
        => /\ freezeAvailable'
           /\ freezeCooldown' = 0

\* C29: at every tick boundary 0 <= freezeCooldown <= 30 and freezeAvailable
\* <=> freezeCooldown = 0; after a successful ActivateFreeze the freeze stays
\* unavailable until the Playing ticks have accumulated 30 s, then becomes
\* available again, so that two successful activations of one match are at
\* least 30 s of tick time apart.
C29_FreezeCooldown == [](pc = "idle" => C29_Range) /\ [][C29_Step]_vars

\* the second successful activation of a match, on a frame 30 s or more into
\* it, with both bursts of effects on screen
C29_Witness ==
  /\ obs.op = "ActivateFreeze"
  /\ obs.ok
  /\ ticks * 100 >= FREEZE_COOLDOWN
  /\ Len(projectiles) = 2 * FreezeEffects
  /\ ~freezeAvailable
  /\ freezeCooldown = FREEZE_COOLDOWN

\* the countdown is within [0, 120], and a match whose countdown is used up
\* has its outcome set
C30_Range ==
  /\ 0 <= gameTimer
  /\ gameTimer <= GAME_TIME_LIMIT
  /\ (currentState = "PLAYING" /\ gameTimer = 0)
        => (gameOver /\ winner # "")

\* a Playing tick takes its elapsed time from the countdown, stopping at 0,
\* and the tick that uses the countdown up sets the outcome; nothing else
\* changes the countdown but the start of the next match; the tick after
\* the outcome is set puts the phase to Over
C30_Step ==
  /\ obs'.op = "UpdateBegin"
        => /\ gameTimer' = IF gameTimer <= deltaTime' THEN 0
                           ELSE gameTimer - deltaTime'
           /\ gameTimer <= deltaTime' => (gameOver' /\ winner' # "")
  /\ obs'.op \notin {"UpdateBegin", "UpdateGameOver"}
        => gameTimer' = gameTimer
  /\ (pc = "idle" /\ currentState = "PLAYING" /\ gameOver
        /\ obs'.op \in {"UpdateBegin", "UpdateEndMatch"})
        => currentState' = "GAME_OVER"

\* C30: every match terminates: the countdown stays within [0, 120] and
\* never increases during a match; once Playing, under ticks with positive
\* elapsed time, the outcome is set no later than the tick in which the
\* accumulated time reaches 120 s, and the phase is Over on the tick after.
C30_MatchTerminates ==
  /\ []C30_Range
  /\ [][C30_Step]_vars
  /\ <>(currentState = "GAME_OVER")

\* the countdown has run out with both towers standing, the match is a draw
\* and the following tick has put the phase to Over
C30_Witness ==
  /\ obs.op = "UpdateEndMatch"
  /\ currentState = "GAME_OVER"
  /\ gameTimer = 0
  /\ gameOver
  /\ winner = "Draw"
  /\ playerTower.isAlive
  /\ enemyTower.isAlive

\* the unit of a lone walker's lane is not frozen and has no target
C31_Free(u) == ~u.isFrozen /\ u.target = NULL

\* a step does not take a free unit away from the opposing tower
C31_Monotone ==
  \A j \in DOMAIN units :
     (j \in DOMAIN units' /\ units'[j].id = units[j].id /\ C31_Free(units[j]))
        => IF units[j].isPlayer
           THEN units'[j].position >= units[j].position
           ELSE units'[j].position <= units[j].position

\* the last frame's step of the walker was below the snap threshold
C31_SmallStep ==
  deltaTime \in {dt \in WalkDeltas : units[1].speed * dt < SnapThreshold}

\* the walker stands in the opposing tower's trigger band, its path used up
C31_Arrived ==
  /\ units[1].path = <<>>
  /\ IF units[1].isPlayer
     THEN units[1].position >= EnemyTowerX - LaneEndBand
     ELSE units[1].position <= PlayerTowerX + LaneEndBand

\* C31: a non-frozen unit without a target moves monotonically along the
\* lane toward the opposing tower (a player unit's x never decreases, an
\* enemy unit's never increases), and under ticks whose step is below the
\* 5-unit snap threshold it enters the opposing tower's 60-unit trigger band
\* after finitely many ticks and stops there, its path empty.
C31_WalksToTower ==
  /\ [][C31_Monotone]_vars
  /\ ([]<>~C31_SmallStep) \/ (<>[]C31_Arrived)

\* a step of the sequencer takes the wave pointer back
C32_Wraps == obs'.op = "HandleWaveProgression" /\ currentWave' < currentWave

\* C32: within a match, from its start or a reset until the phase is Over,
\* the wave sequencer never wraps from wave 8 back to wave 1, the 120 s
\* countdown expiring first, so that every wave's spawnInterval keeps its
\* initial value (4.0, 3.5, 3.5, 3.5, 3.0, 3.0, 2.5, 2.5) in every reachable
\* state.
C32_NoWrap ==
  /\ [](spawnRate = <<4000, 3500, 3500, 3500, 3000, 3000, 2500, 2500>>)
  /\ [][~C32_Wraps]_vars

\* a match has run its whole 120 s and ended in a draw, with the sequencer
\* past its sixth wave, and is on the game-over screen
C32_Witness ==
  /\ currentState = "GAME_OVER"
  /\ gameTimer = 0
  /\ winner = "Draw"
  /\ currentWave = 7
  /\ Len(waveLog) = Len(WavesUpTo(6))
  /\ spawnRate = InitialSpawnRates

\* "a is ranked before b" among the candidates S, as the unit's sort and as
\* the tower's priority queue have it
C33_UnitOrder(S) ==
  {p \in S \X S : UnitTargetBefore(units, p[1], p[2])}

C33_TowerOrder(S) ==
  {p \in S \X S : TowerTargetPriority(units, p[2], p[1])}

\* the candidates of S that no candidate is ranked before
C33_Best(S, R) == {a \in S : \A b \in S : <<b, a>> \notin R}

\* on the candidate set S both rankings are strict weak orderings, and they
\* have the same, existing, best candidates
C33_Ordered(S) ==
  /\ StrictWeak(S, C33_UnitOrder(S))
  /\ StrictWeak(S, C33_TowerOrder(S))
  /\ C33_Best(S, C33_UnitOrder(S)) = C33_Best(S, C33_TowerOrder(S))
  /\ S # {} => C33_Best(S, C33_UnitOrder(S)) # {}

\* C33: the priority relation that ranks targeting candidates (a before b
\* when their distances differ by less than 10 and a has lower health,
\* otherwise when a is closer) is a strict weak ordering over every set of
\* candidates, irreflexive and transitive, so that every non-empty candidate
\* set has a best candidate whatever the order of examination, and the
\* unit's sort and the tower's priority queue select the same unit from the
\* same set.
C33_StrictWeakOrder ==
  /\ \A i \in DOMAIN units :
        units[i].isAlive => C33_Ordered(PotentialTargets(units, i))
  /\ C33_Ordered(TargetPool(playerTower, units))
  /\ C33_Ordered(TargetPool(enemyTower, units))

============================================================================
